---------------------------- MODULE Spec2Model ----------------------------
(***************************************************************************)
(* Model of the Odoo -> CONTPAQi conversion scripts:                       *)
(*   CuentasOdooToContpaqi/entry_to_template.py   (account catalog)        *)
(*   PolizasOdooToContpaqi/xml_to_contpaqi_xls.py    (journal, Policy A)   *)
(*   PolizasOdooToContpaqi/xml_to_contpaqi_xls_v2.py (journal, Policy B)   *)
(*                                                                         *)
(* A Python str is a sequence of one-character strings; None and "" are    *)
(* both the empty sequence (every use in the code is `x or ""`/`not x`).   *)
(***************************************************************************)
EXTENDS Integers, Sequences, FiniteSets, TLC

VARIABLES
    prog,           \* which script / function is being run in this behaviour
    pc,             \* position inside that script
    fn,             \* normalizer under test: one of the three definitions
    raw,            \* normalizer: the raw input string
    total_digits,   \* normalizer: the total_digits argument
    once,           \* normalizer: normalize(raw)
    twice,          \* normalizer: normalize(normalize(raw))
    groups_csv,     \* Policy B: the rows of the account-group CSV
    groups,         \* Policy B: load_account_groups_csv(groups_csv)
    account_role_index, \* Policy B: build_account_role_index(groups)
    transacciones,  \* Policy B: the postings of the entry being classified
    roles,          \* Policy B: the role set resolved for each posting
    tipo,           \* Policy B: determine_tipopol_v2's result (0 = none yet)
    polizas_parsed, \* journal: the parsed entries the loop has consumed so far
    rows,           \* journal: the output rows built so far
    folio,          \* journal: the running folio number
    df,             \* catalog: the sheet rows the loop has consumed so far
    sat_file,       \* catalog: the SAT.xlsx workbook next to the script
    sat_lookup,     \* catalog: the SAT table, lowercased name -> (nivel, codigo)
    parent_code_by_indent,  \* catalog: raw code of the open ancestor per level
    parent_name_by_indent,  \* catalog: name of the open ancestor per level
    base_file,      \* merge: the rows of the base workbook, header first
    additional_file,    \* merge: the rows of the additional workbook
    base_accounts,  \* merge: read_accounts_file(base_file)
    additional_accounts,    \* merge: read_accounts_file(additional_file)
    new_accounts,   \* merge: the additional accounts missing from the base
    output_file,    \* merge: the rows written to the result workbook
    entry_file,     \* main: the rows of the entry workbook, as saved on disk
    warnings,       \* main: the warnings printed so far
    output_path,    \* main: the workbook saved at output_path, if any
    session_state,  \* app: st.session_state
    handler,        \* app: the locals of the running button handler
    stepper         \* app: what the stepper placeholder shows

normVars == <<fn, raw, total_digits, once, twice>>
roleVars == <<groups_csv, groups, account_role_index, transacciones, roles, tipo>>
jrnVars == <<polizas_parsed, rows, folio>>
catVars == <<df, sat_file, sat_lookup, parent_code_by_indent, parent_name_by_indent>>
mergeVars == <<base_file, additional_file, base_accounts, additional_accounts,
               new_accounts, output_file>>
mainVars == <<entry_file, warnings, output_path>>
appVars == <<session_state, handler, stepper>>
vars == <<prog, pc, normVars, roleVars, jrnVars, catVars, mergeVars, mainVars,
          appVars>>

-----------------------------------------------------------------------------
(* Bounds of the model                                                     *)

MaxRawLen == 4
MaxDigits == 3
MaxGroups == 2
MaxPostings == 2
MaxEntries == 3
MaxRows == 4
MaxSheetRows == 2
MaxAmountLen == 2

-----------------------------------------------------------------------------
(* Python str helpers                                                      *)

DigitChars == {"0", "1", "2", "3", "4", "5", "6", "7", "8", "9"}

UpperChars == <<"A","B","C","D","E","F","G","H","I","J","K","L","M",
                "N","O","P","Q","R","S","T","U","V","W","X","Y","Z">>
LowerChars == <<"a","b","c","d","e","f","g","h","i","j","k","l","m",
                "n","o","p","q","r","s","t","u","v","w","x","y","z">>

lower_char(c) ==
    IF \E i \in 1..Len(UpperChars) : UpperChars[i] = c
    THEN LowerChars[CHOOSE i \in 1..Len(UpperChars) : UpperChars[i] = c]
    ELSE c

upper_char(c) ==
    IF \E i \in 1..Len(LowerChars) : LowerChars[i] = c
    THEN UpperChars[CHOOSE i \in 1..Len(LowerChars) : LowerChars[i] = c]
    ELSE c

\* str.lower() / str.upper()
str_lower(s) == [i \in 1..Len(s) |-> lower_char(s[i])]
str_upper(s) == [i \in 1..Len(s) |-> upper_char(s[i])]

\* def text_lower(x): return (x or "").lower()
text_lower(x) == str_lower(x)

\* Python `sub in s`
Contains(s, sub) ==
    \E i \in 0..(Len(s) - Len(sub)) : SubSeq(s, i + 1, i + Len(sub)) = sub

\* s.startswith(p)
StartsWith(s, p) == Len(p) <= Len(s) /\ SubSeq(s, 1, Len(p)) = p

\* "0" * n
Zeros(n) == [i \in 1..n |-> "0"]

\* s.ljust(width, fill): pads on the right, never truncates
ljust(s, width, fill) ==
    IF Len(s) >= width THEN s
    ELSE s \o [i \in 1..(width - Len(s)) |-> fill]

IsDigit(c) == c \in DigitChars

\* re.sub(r"[^0-9]", "", s)
StripNonDigits(s) == SelectSeq(s, IsDigit)

-----------------------------------------------------------------------------
(* Code Normalizer                                                         *)

TOTAL_DIGITS == 8

\* A plausible slip: the zeros are appended instead of padding to the width.
normalize_code_appends(raw_code, digits) ==
    IF raw_code = <<>> THEN Zeros(digits)
    ELSE LET clean_code == StripNonDigits(raw_code)
         IN  IF clean_code = <<>> THEN Zeros(digits)
             ELSE clean_code \o Zeros(digits)

\* entry_to_template.py: normalize_code(raw_code, total_digits=TOTAL_DIGITS)
normalize_code(raw_code, digits) ==
    IF raw_code = <<>> THEN Zeros(digits)
    ELSE LET clean_code == StripNonDigits(raw_code)
         IN  IF clean_code = <<>> THEN Zeros(digits)
             ELSE ljust(clean_code, digits, "0")

\* xml_to_contpaqi_xls_v2.py: normalize_account_code(account_digits, total_digits)
normalize_account_code(account_digits, digits) ==
    IF account_digits = <<>> THEN Zeros(digits)
    ELSE LET clean_code == StripNonDigits(account_digits)
         IN  IF clean_code = <<>> THEN Zeros(digits)
             ELSE ljust(clean_code, digits, "0")

\* xml_to_contpaqi_xls.py: normalize_account_code(account_digits, total_digits)
normalize_account_code_v1(account_digits, digits) ==
    IF account_digits = <<>> THEN Zeros(digits)
    ELSE LET clean_code == StripNonDigits(account_digits)
         IN  IF clean_code = <<>> THEN Zeros(digits)
             ELSE ljust(clean_code, digits, "0")

-----------------------------------------------------------------------------
(* Specification SpecNorm: the three normalizers as pure functions.        *)
(* Init draws the raw string and total_digits; the actions apply the       *)
(* function once and then once more to its own result.                     *)

NormChars == {"0", "1", ".", "x"}

RECURSIVE StringsUpTo(_, _)
StringsUpTo(chars, n) ==
    IF n = 0 THEN {<<>>}
    ELSE LET shorter == StringsUpTo(chars, n - 1)
         IN  shorter \cup {Append(s, c) : s \in shorter, c \in chars}

NormFns == {"normalize_code", "normalize_account_code", "normalize_account_code_v1"}

ApplyNormalizer(f, s, digits) ==
    CASE f = "normalize_code"            -> normalize_code(s, digits)
      [] f = "normalize_account_code"    -> normalize_account_code(s, digits)
      [] f = "normalize_account_code_v1" -> normalize_account_code_v1(s, digits)

NormIdle ==
    /\ fn = "none" /\ raw = <<>> /\ total_digits = 0
    /\ once = <<>> /\ twice = <<>>

RolesIdle ==
    /\ groups_csv = <<>> /\ groups = <<>> /\ account_role_index = <<>>
    /\ transacciones = <<>> /\ roles = <<>> /\ tipo = 0

JournalIdle == polizas_parsed = <<>> /\ rows = <<>> /\ folio = 0

CatalogIdle ==
    /\ df = <<>> /\ sat_file = <<>> /\ sat_lookup = <<>>
    /\ parent_code_by_indent = <<>> /\ parent_name_by_indent = <<>>

MergeIdle ==
    /\ base_file = <<>> /\ additional_file = <<>>
    /\ base_accounts = <<>> /\ additional_accounts = <<>>
    /\ new_accounts = <<>> /\ output_file = <<>>

\* No workbook at a path.
NoFile == [exists |-> FALSE, rows |-> <<>>]

MainIdle == entry_file = <<>> /\ warnings = <<>> /\ output_path = NoFile

AppIdle == session_state = <<>> /\ handler = <<>> /\ stepper = <<>>

InitNorm ==
    /\ MainIdle
    /\ AppIdle
    /\ prog = "normalize"
    /\ pc = "input"
    /\ RolesIdle
    /\ JournalIdle
    /\ CatalogIdle
    /\ MergeIdle
    /\ fn \in NormFns
    /\ raw \in StringsUpTo(NormChars, MaxRawLen)
    /\ total_digits \in 1..MaxDigits
    /\ once = <<>>
    /\ twice = <<>>

NormalizeOnce ==
    /\ prog = "normalize" /\ pc = "input"
    /\ once' = ApplyNormalizer(fn, raw, total_digits)
    /\ pc' = "once"
    /\ UNCHANGED <<prog, fn, raw, total_digits, twice, roleVars, jrnVars, catVars, mergeVars,
                   mainVars, appVars>>

NormalizeTwice ==
    /\ prog = "normalize" /\ pc = "once"
    /\ twice' = ApplyNormalizer(fn, once, total_digits)
    /\ pc' = "twice"
    /\ UNCHANGED <<prog, fn, raw, total_digits, once, roleVars, jrnVars, catVars, mergeVars,
                   mainVars, appVars>>

NextNorm == NormalizeOnce \/ NormalizeTwice

SpecNorm == InitNorm /\ [][NextNorm]_vars

-----------------------------------------------------------------------------
(* Claims on the Code Normalizer                                           *)

\* C1: for every raw input and every total_digits L, the normalized result
\* has length exactly L.
C1_LengthExactlyL ==
    pc \in {"once", "twice"} => Len(once) = total_digits

\* C2: normalization is idempotent: normalize(normalize(x)) = normalize(x)
\* for every raw input x and fixed total_digits.
C2_Idempotent ==
    pc = "twice" => twice = once

\* C2 witness: a raw string with separators and digits was normalized to a
\* different, padded string, and normalizing that again changed nothing.
C2_Witness ==
    /\ pc = "twice"
    /\ "." \in {raw[i] : i \in 1..Len(raw)}
    /\ StripNonDigits(raw) # <<>>
    /\ Len(StripNonDigits(raw)) < total_digits
    /\ once # raw
    /\ twice = once

-----------------------------------------------------------------------------
(* Policy B: account-group catalog, role index, role-based classifier      *)
(* (xml_to_contpaqi_xls_v2.py)                                             *)

S_banco       == <<"b","a","n","c","o">>
S_bancos      == <<"b","a","n","c","o","s">>
S_caja        == <<"c","a","j","a">>
S_clientes    == <<"c","l","i","e","n","t","e","s">>
S_proveedores == <<"p","r","o","v","e","e","d","o","r","e","s">>
S_acreedores  == <<"a","c","r","e","e","d","o","r","e","s">>
S_ingresos    == <<"i","n","g","r","e","s","o","s">>
S_gastos      == <<"g","a","s","t","o","s">>
S_costo       == <<"c","o","s","t","o">>

\* load_account_groups_csv: one dict per CSV row whose "Inicio de prefijo de
\* código" holds at least one digit; rows without one are skipped.
HasPrefixDigits(row) == StripNonDigits(row.start_prefix) # <<>>

load_account_groups_csv(csv_rows) ==
    LET kept == SelectSeq(csv_rows, HasPrefixDigits)
    IN  [i \in 1..Len(kept) |->
            [prefix_digits |-> StripNonDigits(kept[i].start_prefix),
             name          |-> kept[i].name]]

\* infer_account_roles_from_group(prefix_digits, group_name)
infer_account_roles_from_group(prefix_digits, group_name) ==
    LET name_lower  == text_lower(group_name)
        first_digit == IF prefix_digits # <<>> THEN prefix_digits[1] ELSE ""
    IN  (IF \/ Contains(name_lower, S_banco)
            \/ Contains(name_lower, S_bancos)
            \/ Contains(name_lower, S_caja) THEN {"bank"} ELSE {})
        \cup (IF Contains(name_lower, S_clientes) THEN {"customer"} ELSE {})
        \cup (IF \/ Contains(name_lower, S_proveedores)
                 \/ Contains(name_lower, S_acreedores) THEN {"supplier"} ELSE {})
        \cup (IF first_digit = "4" \/ Contains(name_lower, S_ingresos)
              THEN {"income"} ELSE {})
        \cup (IF first_digit \in {"5", "6", "7"} THEN {"expense"} ELSE {})
        \cup (IF Contains(name_lower, S_gastos) \/ Contains(name_lower, S_costo)
              THEN {"expense"} ELSE {})

\* list.sort(key=lambda x: len(x["prefix_digits"]), reverse=True): a stable
\* sort, so items of equal prefix length keep their relative order.
RECURSIVE SortByPrefixLenDesc(_)
SortByPrefixLenDesc(index) ==
    IF index = <<>> THEN <<>>
    ELSE LET longest == CHOOSE n \in {Len(index[i].prefix_digits) : i \in 1..Len(index)} :
                            \A i \in 1..Len(index) : Len(index[i].prefix_digits) <= n
             IsLongest(item) == Len(item.prefix_digits) = longest
             IsShorter(item) == Len(item.prefix_digits) < longest
         IN  SelectSeq(index, IsLongest) \o SortByPrefixLenDesc(SelectSeq(index, IsShorter))

\* The index before index.sort(...): one item per group, in catalog order.
UnsortedRoleIndex(gs) ==
    [i \in 1..Len(gs) |->
        [prefix_digits |-> gs[i].prefix_digits,
         name          |-> gs[i].name,
         roles         |-> infer_account_roles_from_group(gs[i].prefix_digits, gs[i].name)]]

\* A plausible slip: the index.sort(...) line is missing.
build_account_role_index_unsorted(gs) == UnsortedRoleIndex(gs)

\* build_account_role_index(groups)
build_account_role_index(gs) == SortByPrefixLenDesc(UnsortedRoleIndex(gs))

\* get_roles_for_account(numcta, account_role_index)
get_roles_for_account(numcta, index) ==
    IF numcta = <<>> THEN {}
    ELSE LET clean_code == StripNonDigits(numcta)
             Matches(i) == StartsWith(clean_code, index[i].prefix_digits)
         IN  IF clean_code = <<>> THEN {}
             ELSE IF \E i \in 1..Len(index) : Matches(i)
             THEN LET first == CHOOSE i \in 1..Len(index) :
                                   Matches(i) /\ \A j \in 1..(i - 1) : ~Matches(j)
                  IN  index[first].roles
             ELSE LET first_digit == clean_code[1]
                  IN  IF first_digit = "4" THEN {"income"}
                      ELSE IF first_digit \in {"5", "6", "7"} THEN {"expense"}
                      ELSE {}

\* The has_* flags the loop of determine_tipopol_v2 accumulates.
HasRole(trans, index, role) ==
    \E i \in 1..Len(trans) : role \in get_roles_for_account(trans[i].NumCta, index)

\* A plausible slip: the expense rule is tested before the income rule.
determine_tipopol_v2_expense_first(trans, index) ==
    IF HasRole(trans, index, "bank")
       /\ (HasRole(trans, index, "supplier") \/ HasRole(trans, index, "expense"))
    THEN 2
    ELSE IF HasRole(trans, index, "bank")
            /\ (HasRole(trans, index, "customer") \/ HasRole(trans, index, "income"))
    THEN 1
    ELSE 3

\* A plausible slip: the expense rule forgets the bank condition.
determine_tipopol_v2_no_bank(trans, index) ==
    IF HasRole(trans, index, "bank")
       /\ (HasRole(trans, index, "customer") \/ HasRole(trans, index, "income"))
    THEN 1
    ELSE IF HasRole(trans, index, "supplier") \/ HasRole(trans, index, "expense")
    THEN 2
    ELSE 3

\* determine_tipopol_v2(transacciones, account_role_index)
determine_tipopol_v2(trans, index) ==
    IF HasRole(trans, index, "bank")
       /\ (HasRole(trans, index, "customer") \/ HasRole(trans, index, "income"))
    THEN 1
    ELSE IF HasRole(trans, index, "bank")
            /\ (HasRole(trans, index, "supplier") \/ HasRole(trans, index, "expense"))
    THEN 2
    ELSE 3

-----------------------------------------------------------------------------
(* Specification SpecRoles: main_v2's catalog steps followed by the        *)
(* classification of one entry. Init draws the CSV rows; the classify      *)
(* action draws the entry's postings.                                      *)

CsvRow(prefix, nm) == [start_prefix |-> prefix, name |-> nm]

CsvRowPool ==
    { CsvRow(<<"1",".","0","2">>, <<"B","a","n","c","o","s">>),
      CsvRow(<<"1",".","0","2","0">>, <<"C","a","j","a"," ","C","h","i","c","a">>),
      CsvRow(<<"1",".","0","5">>, <<"C","l","i","e","n","t","e","s">>),
      CsvRow(<<"2",".","0","1">>, <<"P","r","o","v","e","e","d","o","r","e","s">>),
      CsvRow(<<"2",".","0","1">>,
             <<"C","l","i","e","n","t","e","s"," ","y"," ",
               "P","r","o","v","e","e","d","o","r","e","s">>),
      CsvRow(<<"1">>, <<"A","c","t","i","v","o">>),
      CsvRow(<<>>, <<"S","i","n"," ","p","r","e","f","i","j","o">>) }

NumCtaPool ==
    { <<"1",".","0","2">>,
      <<"1","0","2","0">>,
      <<"1",".","0","5",".","0","1">>,
      <<"2",".","0","1">>,
      <<"6",".","0","1">>,
      <<"5",".","0","1">>,
      <<"4",".","0","1">>,
      <<>> }

\* A posting as parse_xml_polizas builds it.
Posting(concepto, descta, numcta, haber, debe, compnal) ==
    [Concepto |-> concepto, DesCta |-> descta, NumCta |-> numcta,
     Haber |-> haber, Debe |-> debe, CompNal |-> compnal]

S_0_00 == <<"0",".","0","0">>

RECURSIVE SeqsUpTo(_, _)
SeqsUpTo(S, n) ==
    IF n = 0 THEN {<<>>}
    ELSE LET shorter == SeqsUpTo(S, n - 1)
         IN  shorter \cup {Append(s, x) : s \in shorter, x \in S}

RolePostings == {Posting(<<>>, <<>>, n, S_0_00, S_0_00, <<>>) : n \in NumCtaPool}

InitRoles ==
    /\ MainIdle
    /\ AppIdle
    /\ prog = "roles"
    /\ pc = "csv"
    /\ NormIdle
    /\ JournalIdle
    /\ CatalogIdle
    /\ MergeIdle
    /\ groups_csv \in SeqsUpTo(CsvRowPool, MaxGroups)
    /\ groups = <<>>
    /\ account_role_index = <<>>
    /\ transacciones = <<>>
    /\ roles = <<>>
    /\ tipo = 0

LoadGroups ==
    /\ prog \in {"roles", "journal_v2"} /\ pc = "csv"
    /\ groups' = load_account_groups_csv(groups_csv)
    /\ pc' = "loaded"
    /\ UNCHANGED <<prog, normVars, groups_csv, account_role_index,
                   transacciones, roles, tipo, jrnVars, catVars, mergeVars,
                   mainVars, appVars>>

BuildIndex ==
    /\ prog \in {"roles", "journal_v2"} /\ pc = "loaded"
    /\ account_role_index' = build_account_role_index(groups)
    /\ pc' = "indexed"
    /\ UNCHANGED <<prog, normVars, groups_csv, groups, transacciones, roles, tipo,
                   jrnVars, catVars, mergeVars,
                   mainVars, appVars>>

ClassifyEntry ==
    /\ prog = "roles" /\ pc = "indexed"
    /\ \E trans \in SeqsUpTo(RolePostings, MaxPostings) :
          /\ transacciones' = trans
          /\ roles' = [i \in 1..Len(trans) |->
                          get_roles_for_account(trans[i].NumCta, account_role_index)]
          /\ tipo' = determine_tipopol_v2(trans, account_role_index)
    /\ pc' = "classified"
    /\ UNCHANGED <<prog, normVars, groups_csv, groups, account_role_index, jrnVars, catVars, mergeVars,
                   mainVars, appVars>>

NextRoles == LoadGroups \/ BuildIndex \/ ClassifyEntry

SpecRoles == InitRoles /\ [][NextRoles]_vars

-----------------------------------------------------------------------------
(* Claims on Policy B                                                      *)

AllRoles == UNION {roles[i] : i \in 1..Len(roles)}

Permuted(trans, p) == [i \in 1..Len(trans) |-> trans[p[i]]]

FreeTextPool ==
    { <<>>,
      <<"C","l","i","e","n","t","e","s">>,
      <<"B","a","n","c","o">>,
      <<"G","a","s","t","o","s">> }

WithFreeText(trans, concepto, descta) ==
    [i \in 1..Len(trans) |->
        [trans[i] EXCEPT !.Concepto = concepto, !.DesCta = descta]]

\* C7: Policy B returns 1 iff has-bank and (has-customer or has-income),
\* otherwise 2 iff has-bank and (has-supplier or has-expense), otherwise 3,
\* where the has-flags aggregate the role sets of all postings; the result
\* depends neither on the order of the postings nor on any free-text field.
C7_RoleBasedClassification ==
    pc = "classified" =>
        /\ tipo = IF "bank" \in AllRoles
                     /\ ("customer" \in AllRoles \/ "income" \in AllRoles)
                  THEN 1
                  ELSE IF "bank" \in AllRoles
                          /\ ("supplier" \in AllRoles \/ "expense" \in AllRoles)
                  THEN 2
                  ELSE 3
        /\ \A p \in Permutations(1..Len(transacciones)) :
              determine_tipopol_v2(Permuted(transacciones, p), account_role_index) = tipo
        /\ \A c \in FreeTextPool, d \in FreeTextPool :
              determine_tipopol_v2(WithFreeText(transacciones, c, d),
                                   account_role_index) = tipo

\* C7 witness: an expense entry whose bank posting comes after its supplier
\* posting.
C7_Witness ==
    /\ pc = "classified"
    /\ Len(transacciones) = 2
    /\ roles[1] = {"supplier"}
    /\ roles[2] = {"bank"}
    /\ tipo = 2

\* Postings i and j are the entry's only two accounts, i with the bank role
\* and j with the given role.
OnlyBankAnd(role, i, j) ==
    /\ transacciones[i].NumCta # transacciones[j].NumCta
    /\ "bank" \in roles[i]
    /\ role \in roles[j]
    /\ \A k \in 1..Len(transacciones) :
          transacciones[k].NumCta \in {transacciones[i].NumCta, transacciones[j].NumCta}

\* Postings i and j are the entry's only two accounts, both with the expense
\* role and neither with the bank role.
OnlyTwoExpense(i, j) ==
    /\ transacciones[i].NumCta # transacciones[j].NumCta
    /\ "expense" \in roles[i] /\ "expense" \in roles[j]
    /\ "bank" \notin roles[i] /\ "bank" \notin roles[j]
    /\ \A k \in 1..Len(transacciones) :
          transacciones[k].NumCta \in {transacciones[i].NumCta, transacciones[j].NumCta}

\* C8 (as claimed): under Policy B, for every rule set, an entry posting only
\* to a bank-role and a customer-role account classifies as 1, only to a
\* bank-role and a supplier-role account as 2, and only to two expense-role
\* accounts without the bank role as 3.
C8_AsClaimed ==
    pc = "classified" =>
        \A i \in 1..Len(transacciones), j \in 1..Len(transacciones) :
            /\ OnlyBankAnd("customer", i, j) => tipo = 1
            /\ OnlyBankAnd("supplier", i, j) => tipo = 2
            /\ OnlyTwoExpense(i, j) => tipo = 3

\* C8 (amended): bank + customer classifies as 1; bank + supplier classifies
\* as 2 unless one of the two accounts also carries the customer or income
\* role, in which case it classifies as 1; two expense-role accounts without
\* the bank role classify as 3.
C8_Amended ==
    pc = "classified" =>
        \A i \in 1..Len(transacciones), j \in 1..Len(transacciones) :
            /\ OnlyBankAnd("customer", i, j) => tipo = 1
            /\ OnlyBankAnd("supplier", i, j) =>
                  tipo = IF (roles[i] \cup roles[j]) \cap {"customer", "income"} # {}
                         THEN 1 ELSE 2
            /\ OnlyTwoExpense(i, j) => tipo = 3

\* C8 witness: an entry posting only to a bank account and to an account of a
\* group that is both supplier and customer was classified as income.
C8_Witness ==
    /\ pc = "classified"
    /\ \E i \in 1..Len(transacciones), j \in 1..Len(transacciones) :
          /\ OnlyBankAnd("supplier", i, j)
          /\ roles[i] = {"bank"}
          /\ roles[j] = {"customer", "supplier"}
    /\ tipo = 1

\* The catalog rules whose prefix is a prefix of the code's digits.
MatchingRules(clean_code) ==
    {g \in 1..Len(groups) : StartsWith(clean_code, groups[g].prefix_digits)}

LongestMatchingRules(clean_code) ==
    {g \in MatchingRules(clean_code) :
        \A h \in MatchingRules(clean_code) :
            Len(groups[h].prefix_digits) <= Len(groups[g].prefix_digits)}

LeadingDigitFallback(clean_code) ==
    IF clean_code = <<>> THEN {}
    ELSE IF clean_code[1] = "4" THEN {"income"}
    ELSE IF clean_code[1] \in {"5", "6", "7"} THEN {"expense"}
    ELSE {}

\* C9: get_roles_for_account returns the role set of the rule with the
\* longest prefix that is a prefix of the code's digits (of the first such
\* rule in catalog order when several rules share that prefix); only when no
\* rule matches does it return the leading-digit fallback.
C9_LongestPrefixWins ==
    pc = "classified" =>
        \A k \in 1..Len(transacciones) :
            LET clean_code == StripNonDigits(transacciones[k].NumCta)
                best       == LongestMatchingRules(clean_code)
            IN  IF best # {}
                THEN LET g == CHOOSE g \in best : \A h \in best : g <= h
                     IN  roles[k] = infer_account_roles_from_group(
                                        groups[g].prefix_digits, groups[g].name)
                ELSE roles[k] = LeadingDigitFallback(clean_code)

\* C9 witness: a code matched a short rule listed first and a longer rule
\* listed later, and got the longer rule's (different) roles.
C9_Witness ==
    /\ pc = "classified"
    /\ \E k \in 1..Len(transacciones) :
          LET clean_code == StripNonDigits(transacciones[k].NumCta)
          IN  \E g \in MatchingRules(clean_code), h \in MatchingRules(clean_code) :
                 /\ g < h
                 /\ Len(groups[g].prefix_digits) < Len(groups[h].prefix_digits)
                 /\ h \in LongestMatchingRules(clean_code)
                 /\ roles[k] = infer_account_roles_from_group(
                                   groups[h].prefix_digits, groups[h].name)
                 /\ roles[k] # infer_account_roles_from_group(
                                   groups[g].prefix_digits, groups[g].name)

\* C10: two raw posting account codes whose normalized forms are equal get
\* the same role set from get_roles_for_account against the same index.
C10_SameNormalizedSameRoles ==
    pc = "classified" =>
        \A i \in 1..Len(transacciones), j \in 1..Len(transacciones) :
            normalize_account_code(transacciones[i].NumCta, TOTAL_DIGITS)
              = normalize_account_code(transacciones[j].NumCta, TOTAL_DIGITS)
            => roles[i] = roles[j]

-----------------------------------------------------------------------------
(* Journal builders: shared helpers (both xml_to_contpaqi_xls*.py)         *)

S_cuenta_transitoria == <<"c","u","e","n","t","a"," ","t","r","a","n","s","i","t","o","r","i","a">>
S_Pago_efectivo      == <<"P","a","g","o"," ","e","f","e","c","t","i","v","o">>
S_Pago_efectivo_sep  == <<"P","a","g","o"," ","e","f","e","c","t","i","v","o"," ","-"," ">>
S_sep                == <<" ","-"," ">>
S_0                  == <<"0">>

MAX_REFERENCIA == 30

WhitespaceChars == {" ", "\t", "\n", "\r"}

\* str.strip()
RECURSIVE lstrip(_)
lstrip(s) ==
    IF s # <<>> /\ s[1] \in WhitespaceChars THEN lstrip(Tail(s)) ELSE s

RECURSIVE rstrip(_)
rstrip(s) ==
    IF s # <<>> /\ s[Len(s)] \in WhitespaceChars
    THEN rstrip(SubSeq(s, 1, Len(s) - 1)) ELSE s

strip(s) == rstrip(lstrip(s))

\* str.replace(old, new): every non-overlapping occurrence, left to right
RECURSIVE str_replace(_, _, _)
str_replace(s, old, new) ==
    IF Len(s) < Len(old) THEN s
    ELSE IF SubSeq(s, 1, Len(old)) = old
    THEN new \o str_replace(SubSeq(s, Len(old) + 1, Len(s)), old, new)
    ELSE <<s[1]>> \o str_replace(Tail(s), old, new)

\* The value of a string of decimal digits.
DigitValue(c) ==
    CASE c = "0" -> 0 [] c = "1" -> 1 [] c = "2" -> 2 [] c = "3" -> 3
      [] c = "4" -> 4 [] c = "5" -> 5 [] c = "6" -> 6 [] c = "7" -> 7
      [] c = "8" -> 8 [] c = "9" -> 9

RECURSIVE DigitsValue(_)
DigitsValue(ds) ==
    IF ds = <<>> THEN 0
    ELSE 10 * DigitsValue(SubSeq(ds, 1, Len(ds) - 1)) + DigitValue(ds[Len(ds)])

AllDigits(s) == \A i \in 1..Len(s) : IsDigit(s[i])

\* Position of the first occurrence of character c in s, 0 if none.
IndexOf(s, c) ==
    IF \E i \in 1..Len(s) : s[i] = c
    THEN CHOOSE i \in 1..Len(s) : s[i] = c /\ \A j \in 1..(i - 1) : s[j] # c
    ELSE 0

\* float(s) for the amount strings of the XML: optional surrounding blanks,
\* optional sign, digits with an optional point and at most four decimals.
\* The value is kept as a whole number of ten-thousandths. Any other text of
\* the modelled inputs raises ValueError (ok = FALSE).
ParseFloat(s) ==
    LET body     == strip(s)
        negative == body # <<>> /\ body[1] = "-"
        unsigned == IF body # <<>> /\ body[1] \in {"-", "+"} THEN Tail(body) ELSE body
        dot      == IndexOf(unsigned, ".")
        intpart  == IF dot = 0 THEN unsigned ELSE SubSeq(unsigned, 1, dot - 1)
        fracpart == IF dot = 0 THEN <<>> ELSE SubSeq(unsigned, dot + 1, Len(unsigned))
        ok       == /\ AllDigits(intpart) /\ AllDigits(fracpart)
                    /\ Len(intpart) + Len(fracpart) > 0
                    /\ Len(fracpart) <= 4
        units    == 10000 * DigitsValue(intpart)
                    + DigitsValue(ljust(fracpart, 4, "0"))
    IN  [ok |-> ok, units |-> IF ~ok THEN 0 ELSE IF negative THEN 0 - units ELSE units]

\* def safe_float(s): float(s), or 0.0 on any exception
safe_float(s) == ParseFloat(s).units

Abs(x) == IF x < 0 THEN 0 - x ELSE x

\* round(x, 2) of a non-negative amount in ten-thousandths, as a whole number
\* of cents (no modelled amount lies halfway between two cents).
Round2(x) == (x + 50) \div 100

truncate_referencia_keeps_end(referencia, max_length) ==
    IF Len(referencia) <= max_length THEN referencia
    ELSE SubSeq(referencia, Len(referencia) - max_length + 1, Len(referencia))

\* def truncate_referencia(referencia, max_length=30)
truncate_referencia(referencia, max_length) ==
    IF referencia = <<>> THEN <<>>
    ELSE IF Len(referencia) <= max_length THEN referencia
    ELSE SubSeq(referencia, 1, max_length)

\* s.split("-")
RECURSIVE SplitDash(_)
SplitDash(s) ==
    LET dash == IndexOf(s, "-")
    IN  IF dash = 0 THEN <<s>>
        ELSE <<SubSeq(s, 1, dash - 1)>> \o SplitDash(SubSeq(s, dash + 1, Len(s)))

IsLeapYear(y) == (y % 4 = 0 /\ y % 100 # 0) \/ y % 400 = 0

DaysInMonth(y, m) ==
    IF m = 2 THEN (IF IsLeapYear(y) THEN 29 ELSE 28)
    ELSE IF m \in {4, 6, 9, 11} THEN 30 ELSE 31

RECURSIVE StripLeadingZeros(_)
StripLeadingZeros(s) ==
    IF Len(s) > 1 /\ s[1] = "0" THEN StripLeadingZeros(Tail(s)) ELSE s

\* datetime.strptime(fecha, "%Y-%m-%d") succeeds: four year digits, a month
\* 1..12 and a day of that month, each of one or two digits (the day may
\* have a blank in place of its first digit).
StrptimeOk(fecha) ==
    LET parts == SplitDash(fecha)
    IN  /\ Len(parts) = 3
        /\ LET y == parts[1]
               m == parts[2]
               d == IF Len(parts[3]) = 2 /\ parts[3][1] = " "
                    THEN Tail(parts[3]) ELSE parts[3]
           IN  /\ Len(y) = 4 /\ AllDigits(y) /\ DigitsValue(y) >= 1
               /\ Len(m) \in {1, 2} /\ AllDigits(m)
               /\ DigitsValue(m) \in 1..12
               /\ Len(d) \in {1, 2} /\ AllDigits(d)
               /\ DigitsValue(d) \in 1..DaysInMonth(DigitsValue(y), DigitsValue(m))

\* fecha_fmt of both builders: strftime("%Y%m%d") of the parsed date, or on
\* any exception the raw text without "-" and "/".
IsNotDateSeparator(c) == c \notin {"-", "/"}

FormatFecha(fecha) ==
    IF StrptimeOk(fecha)
    THEN LET parts == SplitDash(fecha)
             d     == IF parts[3][1] = " " THEN Tail(parts[3]) ELSE parts[3]
         IN  StripLeadingZeros(parts[1])
             \o (IF Len(parts[2]) = 1 THEN <<"0">> \o parts[2] ELSE parts[2])
             \o (IF Len(d) = 1 THEN <<"0">> \o d ELSE d)
    ELSE SelectSeq(fecha, IsNotDateSeparator)

\* dict.get(key, "") on an attribute dict
Get(attrs, key) == IF key \in DOMAIN attrs THEN attrs[key] ELSE <<>>

\* The UUID of a CompNal element, under one of the attribute spellings.
CompNalUuid(c) ==
    LET uuid == IF Get(c, "UUID_CFDI") # <<>> THEN Get(c, "UUID_CFDI")
                ELSE Get(c, "UUID")
    IN  IF uuid # <<>> THEN uuid
        ELSE IF Get(c, "UUID") # <<>> THEN Get(c, "UUID")
        ELSE IF Get(c, "uuid") # <<>> THEN Get(c, "uuid")
        ELSE Get(c, "uuid_cfdi")

\* The UUIDs of a posting's CompNal elements, in order, empty ones left out.
RECURSIVE PostingUuids(_)
PostingUuids(comps) ==
    IF comps = <<>> THEN <<>>
    ELSE LET uuid == CompNalUuid(comps[1])
         IN  (IF uuid # <<>> THEN <<uuid>> ELSE <<>>) \o PostingUuids(Tail(comps))

EmptyCells(n) == [i \in 1..n |-> <<>>]

M1Row_strips_prefix_only(version, pol, t) ==
    LET haber == safe_float(IF t.Haber = <<>> THEN S_0 ELSE t.Haber)
        debe  == safe_float(IF t.Debe = <<>> THEN S_0 ELSE t.Debe)
        credit == haber # 0 /\ Abs(haber) > 0
    IN  <<"M1",
          IF version = 1 THEN normalize_account_code_v1(t.NumCta, TOTAL_DIGITS)
          ELSE normalize_account_code(t.NumCta, TOTAL_DIGITS),
          truncate_referencia(pol.NumUnIdenPol, MAX_REFERENCIA),
          IF credit THEN 1 ELSE 0,
          Round2(IF credit THEN Abs(haber) ELSE Abs(debe)), 0, 0,
          IF StartsWith(t.Concepto, S_Pago_efectivo_sep)
          THEN SubSeq(t.Concepto, Len(S_Pago_efectivo_sep) + 1, Len(t.Concepto))
          ELSE t.Concepto,
          <<>>, <<>>, <<>>>>

M1Row_debit_first(version, pol, t) ==
    LET haber == safe_float(IF t.Haber = <<>> THEN S_0 ELSE t.Haber)
        debe  == safe_float(IF t.Debe = <<>> THEN S_0 ELSE t.Debe)
    IN  <<"M1",
          IF version = 1 THEN normalize_account_code_v1(t.NumCta, TOTAL_DIGITS)
          ELSE normalize_account_code(t.NumCta, TOTAL_DIGITS),
          truncate_referencia(pol.NumUnIdenPol, MAX_REFERENCIA),
          IF debe # 0 THEN 0 ELSE 1,
          Round2(IF debe # 0 THEN Abs(debe) ELSE Abs(haber)), 0, 0,
          IF Contains(t.Concepto, S_Pago_efectivo_sep)
          THEN str_replace(t.Concepto, S_Pago_efectivo_sep, <<>>)
          ELSE t.Concepto,
          <<>>, <<>>, <<>>>>

\* The M1 row of a posting (the same code in both builders, each calling
\* its own file's normalize_account_code; version is 1 or 2).
M1Row(version, pol, t) ==
    LET numcta    == t.NumCta
        idcuenta  == IF version = 1
                     THEN normalize_account_code_v1(numcta, TOTAL_DIGITS)
                     ELSE normalize_account_code(numcta, TOTAL_DIGITS)
        referencia == truncate_referencia(pol.NumUnIdenPol, MAX_REFERENCIA)
        haber     == safe_float(IF t.Haber = <<>> THEN S_0 ELSE t.Haber)
        debe      == safe_float(IF t.Debe = <<>> THEN S_0 ELSE t.Debe)
        credit    == haber # 0 /\ Abs(haber) > 0
        tipomov   == IF credit THEN 1 ELSE 0
        importe   == IF credit THEN Abs(haber) ELSE Abs(debe)
        concepto_movimiento ==
            IF Contains(t.Concepto, S_Pago_efectivo_sep)
            THEN str_replace(t.Concepto, S_Pago_efectivo_sep, <<>>)
            ELSE t.Concepto
    IN  <<"M1", idcuenta, referencia, tipomov, Round2(importe), 0, 0,
          concepto_movimiento, <<>>, <<>>, <<>>>>

RECURSIVE MovementRows_am_first(_, _, _)
MovementRows_am_first(version, pol, trans) ==
    IF trans = <<>> THEN <<>>
    ELSE [i \in 1..Len(PostingUuids(trans[1].CompNal)) |->
             <<"AM", PostingUuids(trans[1].CompNal)[i]>> \o EmptyCells(9)]
         \o <<M1Row(version, pol, trans[1])>>
         \o MovementRows_am_first(version, pol, Tail(trans))

\* The M1 row of each posting followed by that posting's AM rows.
RECURSIVE MovementRows(_, _, _)
MovementRows(version, pol, trans) ==
    IF trans = <<>> THEN <<>>
    ELSE LET uuids == PostingUuids(trans[1].CompNal)
         IN  <<M1Row(version, pol, trans[1])>>
             \o [i \in 1..Len(uuids) |-> <<"AM", uuids[i]>> \o EmptyCells(9)]
             \o MovementRows(version, pol, Tail(trans))

\* ad_uuids: every UUID appended while the postings were walked.
RECURSIVE AdUuids(_)
AdUuids(trans) ==
    IF trans = <<>> THEN <<>>
    ELSE PostingUuids(trans[1].CompNal) \o AdUuids(Tail(trans))

\* The rows one emitted entry appends: P, then M1/AM per posting, then AD.
PolizaRows(version, pol, tipopol, folio_now) ==
    LET fecha_fmt == FormatFecha(pol.Fecha)
        concepto_poliza ==
            IF strip(pol.Concepto) = S_Pago_efectivo THEN pol.NumUnIdenPol
            ELSE pol.Concepto \o S_sep \o pol.NumUnIdenPol
        ad_uuids == AdUuids(pol.Transacciones)
    IN  <<<<"P", fecha_fmt, tipopol, folio_now, 1, 0, concepto_poliza, 11, 0, 0, <<>>>>>>
        \o MovementRows(version, pol, pol.Transacciones)
        \o [i \in 1..Len(ad_uuids) |-> <<"AD", ad_uuids[i]>> \o EmptyCells(9)]

-----------------------------------------------------------------------------
(* Policy A: textual classifier (xml_to_contpaqi_xls.py)                   *)

S_INV_slash     == <<"I","N","V","/">>
S_FACTU_slash   == <<"F","A","C","T","U","/">>
S_BNK           == <<"B","N","K">>
S_operaciones_varias == <<"o","p","e","r","a","c","i","o","n","e","s"," ","v","a","r","i","a","s">>
S_effectively_paid   == <<"e","f","f","e","c","t","i","v","e","l","y"," ","p","a","i","d">>
S_iva_traslad   == <<"i","v","a"," ","t","r","a","s","l","a","d">>
S_iva_acredit   == <<"i","v","a"," ","a","c","r","e","d","i","t">>
S_comisiones    == <<"c","o","m","i","s","i","o","n","e","s">>
S_factu         == <<"f","a","c","t","u">>
S_inv           == <<"i","n","v">>
S_sat_impuestos == <<"s","a","t"," ","i","m","p","u","e","s","t","o","s">>

\* ttexts: per posting, lowercased Concepto + " " + lowercased DesCta
PostingTexts(trans) ==
    [i \in 1..Len(trans) |->
        text_lower(trans[i].Concepto) \o <<" ">> \o text_lower(trans[i].DesCta)]

determine_tipopol_bank_first(num_un_iden, concepto_pol, trans) ==
    LET n      == str_upper(num_un_iden)
        ttexts == PostingTexts(trans)
        Has(w) == \E i \in 1..Len(ttexts) : Contains(ttexts[i], w)
    IN  IF Has(S_cuenta_transitoria) THEN 0
        ELSE IF Contains(n, S_BNK) /\ Has(S_clientes) THEN 1
        ELSE IF Contains(n, S_BNK)
                /\ (Has(S_proveedores) \/ Has(S_gastos) \/ Has(S_comisiones)) THEN 2
        ELSE IF Contains(n, S_INV_slash) \/ Contains(n, S_FACTU_slash) THEN 3
        ELSE IF Contains(text_lower(concepto_pol), S_operaciones_varias) THEN 3
        ELSE IF Contains(text_lower(concepto_pol), S_effectively_paid)
                /\ Has(S_iva_traslad) THEN 1
        ELSE IF Contains(text_lower(concepto_pol), S_effectively_paid)
                /\ Has(S_iva_acredit) THEN 2
        ELSE 3

\* determine_tipopol(num_un_iden, concepto_pol, transacciones); 0 stands for
\* the None that tells the builder to skip the entry.
determine_tipopol(num_un_iden, concepto_pol, trans) ==
    LET n      == str_upper(num_un_iden)
        cpol   == text_lower(concepto_pol)
        ttexts == PostingTexts(trans)
        Has(w)        == \E i \in 1..Len(ttexts) : Contains(ttexts[i], w)
        HasBoth(w, x) == \E i \in 1..Len(ttexts) :
                             Contains(ttexts[i], w) /\ Contains(ttexts[i], x)
    IN  IF Has(S_cuenta_transitoria) THEN 0
        ELSE IF Contains(n, S_INV_slash) \/ Contains(n, S_FACTU_slash) THEN 3
        ELSE IF Contains(cpol, S_operaciones_varias) THEN 3
        ELSE IF Contains(text_lower(concepto_pol), S_effectively_paid)
                /\ Has(S_iva_traslad) THEN 1
        ELSE IF Contains(text_lower(concepto_pol), S_effectively_paid)
                /\ Has(S_iva_acredit) THEN 2
        ELSE IF (Contains(n, S_BNK) \/ StartsWith(n, S_BNK)) /\ Has(S_clientes) THEN 1
        ELSE IF (Contains(n, S_BNK) \/ StartsWith(n, S_BNK))
                /\ (\E i \in 1..Len(ttexts) : \/ Contains(ttexts[i], S_proveedores)
                                                 \/ Contains(ttexts[i], S_gastos)
                                                 \/ Contains(ttexts[i], S_comisiones))
             THEN 2
        ELSE IF (Contains(n, S_BNK) \/ StartsWith(n, S_BNK))
                /\ HasBoth(S_banco, S_factu) THEN 2
        ELSE IF (Contains(n, S_BNK) \/ StartsWith(n, S_BNK))
                /\ HasBoth(S_banco, S_inv) THEN 1
        ELSE IF (Contains(n, S_BNK) \/ StartsWith(n, S_BNK))
                /\ HasBoth(S_banco, S_sat_impuestos) THEN 2
        ELSE IF HasBoth(S_banco, S_iva_acredit) THEN 2
        ELSE 3

-----------------------------------------------------------------------------
(* The row builders: one loop iteration of build_rows_from_parsed and of   *)
(* build_rows_from_parsed_v2, as a function of the loop state.             *)

\* The `any(...)` test at the head of both loops: some posting's Concepto or
\* DesCta, lowercased, contains "cuenta transitoria".
AnyPostingTransitoria(trans) ==
    \E i \in 1..Len(trans) :
        \/ Contains(text_lower(trans[i].Concepto), S_cuenta_transitoria)
        \/ Contains(text_lower(trans[i].DesCta), S_cuenta_transitoria)

\* A plausible slip: the test forgets text_lower.
SkipsPolizaV2_case_sensitive(pol) ==
    \E i \in 1..Len(pol.Transacciones) :
        \/ Contains(pol.Transacciones[i].Concepto, S_cuenta_transitoria)
        \/ Contains(pol.Transacciones[i].DesCta, S_cuenta_transitoria)

\* A variant that also looks at the header concept.
SkipsPolizaV2_header_too(pol) ==
    \/ AnyPostingTransitoria(pol.Transacciones)
    \/ Contains(text_lower(pol.Concepto), S_cuenta_transitoria)

\* build_rows_from_parsed_v2: the entry is skipped (`continue`)
SkipsPolizaV2(pol) == AnyPostingTransitoria(pol.Transacciones)

\* build_rows_from_parsed: the entry is skipped, by the `any(...)` test or
\* by determine_tipopol returning None
SkipsPolizaV1(pol) ==
    \/ AnyPostingTransitoria(pol.Transacciones)
    \/ determine_tipopol(pol.NumUnIdenPol, pol.Concepto, pol.Transacciones) = 0

\* The loop state after an emitted entry: its rows appended, folio += 1.
Emitted(version, rs, f, pol, tipopol) ==
    [rows |-> rs \o PolizaRows(version, pol, tipopol, f), folio |-> f + 1]

\* A plausible slip: `folio += 1` runs for skipped entries too.
LoopBodyV2_skip_takes_folio(rs, f, pol, index) ==
    IF SkipsPolizaV2(pol) THEN [rows |-> rs, folio |-> f + 1]
    ELSE Emitted(2, rs, f, pol, determine_tipopol_v2(pol.Transacciones, index))

\* One iteration of the loop of build_rows_from_parsed_v2.
LoopBodyV2(rs, f, pol, index) ==
    IF SkipsPolizaV2(pol) THEN [rows |-> rs, folio |-> f]
    ELSE Emitted(2, rs, f, pol, determine_tipopol_v2(pol.Transacciones, index))

\* One iteration of the loop of build_rows_from_parsed.
LoopBodyV1(rs, f, pol) ==
    IF SkipsPolizaV1(pol) THEN [rows |-> rs, folio |-> f]
    ELSE Emitted(1, rs, f, pol,
                 determine_tipopol(pol.NumUnIdenPol, pol.Concepto, pol.Transacciones))

-----------------------------------------------------------------------------
(* Specification SpecJournal: build_rows_from_parsed (journal_v1) or       *)
(* main_v2's catalog steps and build_rows_from_parsed_v2 (journal_v2),     *)
(* one loop iteration per step; each step draws the next parsed entry.     *)

Poliza(fecha, concepto, num_un_iden, trans) ==
    [Fecha |-> fecha, Concepto |-> concepto, NumUnIdenPol |-> num_un_iden,
     Transacciones |-> trans]

T_banco ==
    Posting(<<"P","a","g","o"," ","e","f","e","c","t","i","v","o"," ","-"," ","F","1">>, <<"B","a","n","c","o">>, <<"1",".","0","2">>,
            <<"0",".","0","0">>, <<"1","0","0",".","5","0">>, <<[UUID_CFDI |-> <<"U","1">>]>>)
T_clientes ==
    Posting(<<"C","o","b","r","o">>, <<"C","l","i","e","n","t","e","s">>, <<"1",".","0","5",".","0","1">>,
            <<"1","0","0",".","5","0">>, <<"0">>, <<[UUID |-> <<"U","1">>], [uuid |-> <<"U","2">>]>>)
T_proveedores ==
    Posting(<<"P","a","g","o">>, <<"P","r","o","v","e","e","d","o","r","e","s">>, <<"2",".","0","1">>,
            <<>>, <<"a","b","c">>, <<[Otro |-> <<"U","3">>]>>)
T_gastos ==
    Posting(<<"G","a","s","t","o">>, <<"G","a","s","t","o","s">>, <<"6",".","0","1">>, <<"0">>, <<" ","5","0"," ">>, <<>>)
T_transitoria_descta ==
    Posting(<<"T","r","a","s","p","a","s","o">>, <<"C","u","e","n","t","a"," ","T","r","a","n","s","i","t","o","r","i","a">>, <<"1",".","0","9">>, <<"1","0">>, <<"0">>, <<>>)
T_transitoria_concepto ==
    Posting(<<"A"," ","C","U","E","N","T","A"," ","T","R","A","N","S","I","T","O","R","I","A">>, <<"B","a","n","c","o">>, <<"1",".","0","2">>, <<"0">>, <<"1","0">>, <<>>)
T_transitoria_joined ==
    Posting(<<"T","r","a","s","p","a","s","o"," ","a"," ","c","u","e","n","t","a">>, <<"T","r","a","n","s","i","t","o","r","i","a">>, <<"1",".","0","9">>, <<"0">>, <<"1","0">>, <<>>)

EntryPool ==
    { Poliza(<<"2","0","2","4","-","0","1","-","1","5">>, <<"C","o","b","r","o">>, <<"B","N","K","1","/","2","0","2","4","/","0","0","0","1">>, <<T_banco, T_clientes>>),
      Poliza(<<"2","0","2","4","-","1","-","5">>, <<"P","a","g","o">>, <<"B","N","K","1","/","2","0","2","4","/","0","0","0","2">>, <<T_proveedores, T_banco>>),
      Poliza(<<"2","0","2","4","-","0","1","-","1","5">>, <<"A","j","u","s","t","e">>, <<"M","I","S","C","/","0","0","0","3">>, <<T_gastos, T_transitoria_descta>>),
      Poliza(<<"2","0","2","4","-","0","1","-","1","5">>, <<"T","r","a","s","p","a","s","o">>, <<"M","I","S","C","/","0","0","0","4">>, <<T_transitoria_concepto>>),
      Poliza(<<"2","0","2","4","/","0","1","/","1","5">>, <<"C","u","e","n","t","a"," ","t","r","a","n","s","i","t","o","r","i","a">>, <<"B","N","K","1","/","2","0","2","4","/","0","0","0","5">>,
             <<T_banco, T_clientes>>),
      Poliza(<<>>, <<" ","P","a","g","o"," ","e","f","e","c","t","i","v","o"," ">>, <<"B","N","K","1","/","2","0","2","4","/","0","0","0","6"," ","P","a","g","o"," ","e","f","e","c","t","i","v","o"," ","c","a","j","a"," ","0","1">>,
             <<T_gastos, T_banco>>),
      Poliza(<<"2","0","2","4","-","0","2","-","3","0">>, <<"F","a","c","t","u","r","a">>, <<"I","N","V","/","2","0","2","4","/","0","0","0","7">>, <<T_clientes>>),
      Poliza(<<"2","0","2","4","-","0","1","-","1","5">>, <<"T","r","a","s","p","a","s","o">>, <<"M","I","S","C","/","0","0","0","8">>, <<T_transitoria_joined>>),
      Poliza(<<"2","0","2","4","-","0","1","-","1","5">>, <<"A","p","e","r","t","u","r","a">>, <<"M","I","S","C","/","0","0","0","9">>, <<>>) }

JournalCsv ==
    << CsvRow(<<"1">>, <<"A","c","t","i","v","o">>),
       CsvRow(<<"1",".","0","2">>, <<"B","a","n","c","o","s">>),
       CsvRow(<<"1",".","0","5">>, <<"C","l","i","e","n","t","e","s">>),
       CsvRow(<<"2",".","0","1">>, <<"P","r","o","v","e","e","d","o","r","e","s">>) >>

InitJournal ==
    /\ MainIdle
    /\ AppIdle
    /\ NormIdle
    /\ CatalogIdle
    /\ MergeIdle
    /\ transacciones = <<>> /\ roles = <<>> /\ tipo = 0
    /\ groups = <<>> /\ account_role_index = <<>>
    /\ polizas_parsed = <<>>
    /\ rows = <<>>
    /\ folio = 1
    /\ \/ prog = "journal_v1" /\ pc = "parsed" /\ groups_csv = <<>>
       \/ prog = "journal_v2" /\ pc = "csv" /\ groups_csv \in {<<>>, JournalCsv}

BuildRowsStep ==
    /\ prog = "journal_v1" /\ pc = "parsed"
    /\ Len(polizas_parsed) < MaxEntries
    /\ \E pol \in EntryPool :
          \E after \in {LoopBodyV1(rows, folio, pol)} :
              /\ polizas_parsed' = Append(polizas_parsed, pol)
              /\ rows' = after.rows
              /\ folio' = after.folio
    /\ UNCHANGED <<prog, pc, normVars, roleVars, catVars, mergeVars,
                   mainVars, appVars>>

BuildRowsStepV2 ==
    /\ prog = "journal_v2" /\ pc = "indexed"
    /\ Len(polizas_parsed) < MaxEntries
    /\ \E pol \in EntryPool :
          \E after \in {LoopBodyV2(rows, folio, pol, account_role_index)} :
              /\ polizas_parsed' = Append(polizas_parsed, pol)
              /\ rows' = after.rows
              /\ folio' = after.folio
    /\ UNCHANGED <<prog, pc, normVars, roleVars, catVars, mergeVars,
                   mainVars, appVars>>

NextJournal == LoadGroups \/ BuildIndex \/ BuildRowsStep \/ BuildRowsStepV2

SpecJournal == InitJournal /\ [][NextJournal]_vars

-----------------------------------------------------------------------------
(* Claims on the journal builders                                          *)

InJournal == prog \in {"journal_v1", "journal_v2"}

\* This step ran one loop iteration; the entry it consumed is LastPoliza'.
ConsumedOne == Len(polizas_parsed') = Len(polizas_parsed) + 1
LastPoliza == polizas_parsed[Len(polizas_parsed)]

\* Case-insensitive presence of the suspense marker in a text.
HasMarker(text) == Contains(str_lower(text), S_cuenta_transitoria)

\* Some posting's concept or account description holds the marker.
MarkerInPosting(pol) ==
    \E i \in 1..Len(pol.Transacciones) :
        \/ HasMarker(pol.Transacciones[i].Concepto)
        \/ HasMarker(pol.Transacciones[i].DesCta)

\* Some posting's concept and description, joined by a blank as Policy A
\* reads them, hold the marker.
MarkerInJoinedPosting(pol) ==
    \E i \in 1..Len(pol.Transacciones) :
        HasMarker(pol.Transacciones[i].Concepto \o <<" ">> \o pol.Transacciones[i].DesCta)

PRows == SelectSeq(rows, LAMBDA r : r[1] = "P")

\* C4: in both journal builders an entry in which any posting's concept or
\* account description contains "cuenta transitoria" (case-insensitive)
\* contributes no output row of any type and does not consume a folio.
C4_SuspenseEntryExcluded ==
    [][(InJournal /\ ConsumedOne /\ MarkerInPosting(LastPoliza'))
          => (rows' = rows /\ folio' = folio)]_vars

\* C4 witness: an emitted entry was followed by an entry with the marker in
\* a posting; the output still holds only the first entry's rows and the
\* folio counter stands at 2.
C4_Witness ==
    /\ InJournal
    /\ Len(polizas_parsed) = 2
    /\ ~MarkerInPosting(polizas_parsed[1])
    /\ MarkerInPosting(polizas_parsed[2])
    /\ Len(PRows) = 1
    /\ Len(rows) = 1 + Len(polizas_parsed[1].Transacciones)
                     + 2 * Len(AdUuids(polizas_parsed[1].Transacciones))
    /\ folio = 2

\* C5 (as claimed): an entry whose header concept contains the marker is
\* excluded entirely under either policy, even when none of its posting
\* descriptions contains it.
C5_HeaderMarkerExcluded ==
    [][(InJournal /\ ConsumedOne /\ HasMarker(LastPoliza'.Concepto))
          => (rows' = rows /\ folio' = folio)]_vars

\* C5 (amended): the header concept is not inspected. An entry whose header
\* concept contains the marker, and none of whose postings holds it (in its
\* concept, its description or, for Policy A, the two joined by a blank), is
\* emitted under either policy: its P row, carrying the current folio and
\* the concept, is appended and the folio advances by one.
C5_HeaderMarkerEmitted ==
    [][(/\ InJournal /\ ConsumedOne
        /\ HasMarker(LastPoliza'.Concepto)
        /\ ~MarkerInPosting(LastPoliza')
        /\ (prog = "journal_v1" => ~MarkerInJoinedPosting(LastPoliza')))
          => /\ folio' = folio + 1
             /\ Len(rows') > Len(rows)
             /\ SubSeq(rows', 1, Len(rows)) = rows
             /\ rows'[Len(rows) + 1][1] = "P"
             /\ rows'[Len(rows) + 1][4] = folio
             /\ HasMarker(rows'[Len(rows) + 1][7])]_vars

\* C5 witness: an entry with the marker in its header concept only was
\* consumed and its P row is in the output.
C5_Witness ==
    /\ InJournal
    /\ Len(polizas_parsed) = 1
    /\ HasMarker(polizas_parsed[1].Concepto)
    /\ ~MarkerInPosting(polizas_parsed[1])
    /\ Len(PRows) = 1
    /\ HasMarker(PRows[1][7])
    /\ folio = 2

\* C6: the k-th emitted header (P) row carries folio k, whatever excluded
\* entries are interleaved (and the counter stands one past the last folio).
C6_FolioSequence ==
    InJournal =>
        /\ \A k \in 1..Len(PRows) : PRows[k][4] = k
        /\ folio = Len(PRows) + 1

\* C6 witness: emitted, excluded, emitted: the two P rows carry 1 and 2.
C6_Witness ==
    /\ InJournal
    /\ Len(polizas_parsed) = 3
    /\ ~MarkerInPosting(polizas_parsed[1]) /\ ~MarkerInJoinedPosting(polizas_parsed[1])
    /\ MarkerInPosting(polizas_parsed[2])
    /\ ~MarkerInPosting(polizas_parsed[3]) /\ ~MarkerInJoinedPosting(polizas_parsed[3])
    /\ Len(PRows) = 2
    /\ PRows[1][4] = 1 /\ PRows[2][4] = 2

-----------------------------------------------------------------------------
(* Account catalog: entry_to_template.py                                   *)

\* re.sub(r'[^0-9\.]', '', s)
RECURSIVE KeepDigitsAndDots(_)
KeepDigitsAndDots(s) ==
    IF s = <<>> THEN <<>>
    ELSE IF IsDigit(s[1]) \/ s[1] = "."
    THEN <<s[1]>> \o KeepDigitsAndDots(Tail(s))
    ELSE KeepDigitsAndDots(Tail(s))

\* re.sub(r'(?:\.0)+$', '', s)
RECURSIVE StripTrailingDotZero(_)
StripTrailingDotZero(s) ==
    IF Len(s) >= 2 /\ s[Len(s) - 1] = "." /\ s[Len(s)] = "0"
    THEN StripTrailingDotZero(SubSeq(s, 1, Len(s) - 2))
    ELSE s

sanitize_code_str(s) ==
    IF s = <<>> THEN <<>>
    ELSE StripTrailingDotZero(KeepDigitsAndDots(strip(s)))

\* Number of consecutive digits of s from position i on.
RECURSIVE DigitRun(_, _)
DigitRun(s, i) ==
    IF i <= Len(s) /\ IsDigit(s[i]) THEN 1 + DigitRun(s, i + 1) ELSE 0

\* End of the longest match of (?:\.[0-9]+)* that starts after position k.
RECURSIVE DottedEnd(_, _)
DottedEnd(s, k) ==
    IF k + 2 <= Len(s) /\ s[k + 1] = "." /\ IsDigit(s[k + 2])
    THEN DottedEnd(s, k + 1 + DigitRun(s, k + 2))
    ELSE k

\* Length of the longest prefix of s matching [0-9]+(?:\.[0-9]+)*, 0 if none.
DottedPrefixLen(s) ==
    IF DigitRun(s, 1) = 0 THEN 0 ELSE DottedEnd(s, DigitRun(s, 1))

\* The tail \s+(.+)$ of both patterns: whitespace, then at least one more
\* character.
MatchesSpaceThenText(rest) == Len(rest) >= 2 /\ rest[1] \in WhitespaceChars

extract_code_from_name_one_group(name) ==
    IF DigitRun(lstrip(name), 1) > 0
       /\ MatchesSpaceThenText(SubSeq(lstrip(name), DigitRun(lstrip(name), 1) + 1,
                                      Len(lstrip(name))))
    THEN [code |-> SubSeq(lstrip(name), 1, DigitRun(lstrip(name), 1)),
          name |-> strip(SubSeq(lstrip(name), DigitRun(lstrip(name), 1) + 1,
                                Len(lstrip(name))))]
    ELSE [code |-> <<>>, name |-> strip(name)]

\* Returns [code, name]; code = <<>> stands for None.
extract_code_from_name(name) ==
    LET s == lstrip(name)
        n == DottedPrefixLen(s)
        rest == SubSeq(s, n + 1, Len(s))
    IN  IF n > 0 /\ MatchesSpaceThenText(rest)
        THEN [code |-> strip(SubSeq(s, 1, n)), name |-> strip(rest)]
        ELSE [code |-> <<>>, name |-> strip(name)]

\* re.match(r'^\s*' + re.escape(raw_code) + r'\s+(.+)$', name_cell): the name
\* with a repeated leading code removed.
StripRepeatedCode(raw_code, name_cell) ==
    LET s == lstrip(name_cell)
        rest == SubSeq(s, Len(raw_code) + 1, Len(s))
    IN  IF StartsWith(s, raw_code) /\ MatchesSpaceThenText(rest)
        THEN strip(rest)
        ELSE name_cell

\* One row of the entry sheet: the code cell, the text of the name cell as
\* the sheet holds it, the type cell and the name cell's alignment indent.
SheetRow(code, text, tipo_cell, indent) ==
    [code |-> code, text |-> text, tipo |-> tipo_cell, indent |-> indent]

RECURSIVE LeadingSpaces(_)
LeadingSpaces(s) ==
    IF s # <<>> /\ s[1] = " " THEN 1 + LeadingSpaces(Tail(s)) ELSE 0

indent_level(row) ==
    LET leading_spaces == LeadingSpaces(row.text)
    IN  IF row.indent = 0 /\ leading_spaces > 0
        THEN IF leading_spaces \div 2 >= 1 THEN leading_spaces \div 2 ELSE 1
        ELSE row.indent + 1

\* The code and the display name recovered from a row; raw_code = <<>> when
\* the row has no code anywhere and is skipped.
RecoverCode(row) ==
    LET raw_code_cell == strip(row.code)
        name_cell == strip(row.text)
        from_cell == sanitize_code_str(raw_code_cell)
        from_name == extract_code_from_name(name_cell)
    IN  IF from_cell = <<>>
        THEN IF from_name.code # <<>>
             THEN [raw_code |-> sanitize_code_str(from_name.code),
                   name |-> from_name.name]
             ELSE [raw_code |-> <<>>, name |-> name_cell]
        ELSE [raw_code |-> from_cell,
              name |-> StripRepeatedCode(from_cell, name_cell)]

\* dict.get(k): <<>> stands for None.
DictGet(d, k) == IF k \in DOMAIN d THEN d[k] ELSE <<>>

SetAndPrune_keeps_deeper(d, level, v) ==
    [k \in (DOMAIN d) \cup {level} |-> IF k = level THEN v ELSE d[k]]

\* d[level] = v, then every key deeper than level is deleted.
SetAndPrune(d, level, v) ==
    [k \in {x \in (DOMAIN d) \cup {level} : x <= level} |->
        IF k = level THEN v ELSE d[k]]

parent_raw_deepest(by_indent, level) ==
    IF level > 1 /\ DOMAIN by_indent # {}
    THEN by_indent[CHOOSE k \in DOMAIN by_indent : \A x \in DOMAIN by_indent : x <= k]
    ELSE <<>>

parent_raw(by_indent, level) ==
    IF level > 1 THEN DictGet(by_indent, level - 1) ELSE <<>>

cta_sup_unnormalized(by_indent, level) ==
    IF parent_raw(by_indent, level) = <<>>
    THEN Zeros(TOTAL_DIGITS)
    ELSE parent_raw(by_indent, level)

cta_sup(by_indent, level) ==
    IF parent_raw(by_indent, level) = <<>>
    THEN Zeros(TOTAL_DIGITS)
    ELSE normalize_code(parent_raw(by_indent, level), TOTAL_DIGITS)

\* int(nivel_sat) if nivel_sat else 2, with 2 when int() raises.
IntOrTwo(nivel_sat) ==
    LET s == strip(nivel_sat)
        signed == s # <<>> /\ s[1] \in {"+", "-"}
        ds == IF signed THEN Tail(s) ELSE s
    IN  IF ds # <<>> /\ AllDigits(ds)
        THEN IF signed /\ s[1] = "-" THEN 0 - DigitsValue(ds) ELSE DigitsValue(ds)
        ELSE 2

SatMatch_no_inherit(sat, name, names_by_indent, level) ==
    IF str_lower(strip(name)) \in DOMAIN sat
    THEN [cta_mayor |-> IntOrTwo(sat[str_lower(strip(name))].nivel),
          id_agrupador |-> sat[str_lower(strip(name))].codigo,
          found_in_sat |-> "True"]
    ELSE [cta_mayor |-> 2, id_agrupador |-> <<>>, found_in_sat |-> "None"]

\* Lines 228-249: [cta_mayor, id_agrupador, found_in_sat].
SatMatch(sat, name, names_by_indent, level) ==
    LET nombre_busqueda == str_lower(strip(name))
        parent_name == parent_raw(names_by_indent, level)
        parent_key == str_lower(strip(parent_name))
    IN  IF nombre_busqueda \in DOMAIN sat
        THEN [cta_mayor |-> IntOrTwo(sat[nombre_busqueda].nivel),
              id_agrupador |-> sat[nombre_busqueda].codigo,
              found_in_sat |-> "True"]
        ELSE IF parent_name # <<>> /\ parent_key \in DOMAIN sat
        THEN [cta_mayor |-> 2,
              id_agrupador |-> sat[parent_key].codigo,
              found_in_sat |-> "False"]
        ELSE [cta_mayor |-> 2, id_agrupador |-> <<>>, found_in_sat |-> "None"]

\* datetime.today().strftime("%Y%m%d"), one fixed day for the whole run
today == <<"2","0","2","4","0","1","1","5">>

CatalogRow(codigo_normalizado, name, parent, tipo_cell, match) ==
    [data |-> << "C", codigo_normalizado, name, name, parent, tipo_cell, 0,
                 match.cta_mayor, 0, today, 11, 1, 0, 0, 0, 0,
                 match.id_agrupador >>,
     found_in_sat |-> match.found_in_sat]

CatalogLoopBody_drops_unmatched(rs, codes, names, sat, row) ==
    LET rec == RecoverCode(row)
        level == indent_level(row)
        codes2 == SetAndPrune(codes, level, rec.raw_code)
        names2 == SetAndPrune(names, level, rec.name)
        match == SatMatch(sat, rec.name, names2, level)
    IN  IF rec.raw_code = <<>>
        THEN [rows |-> rs, codes |-> codes, names |-> names]
        ELSE [rows |-> IF match.found_in_sat = "None" THEN rs
                       ELSE Append(rs,
                  CatalogRow(normalize_code(rec.raw_code, TOTAL_DIGITS),
                             rec.name, cta_sup(codes, level), row.tipo, match)),
              codes |-> codes2,
              names |-> names2]

CatalogLoopBody_dedups(rs, codes, names, sat, row) ==
    LET rec == RecoverCode(row)
        level == indent_level(row)
        codigo == normalize_code(rec.raw_code, TOTAL_DIGITS)
        names2 == SetAndPrune(names, level, rec.name)
    IN  IF rec.raw_code = <<>> \/ \E k \in 1..Len(rs) : rs[k].data[2] = codigo
        THEN [rows |-> rs, codes |-> codes, names |-> names]
        ELSE [rows |-> Append(rs,
                  CatalogRow(codigo, rec.name, cta_sup(codes, level), row.tipo,
                             SatMatch(sat, rec.name, names2, level))),
              codes |-> SetAndPrune(codes, level, rec.raw_code),
              names |-> names2]

\* One iteration of the loop of build_catalog_rows over a sheet row.
CatalogLoopBody_push_before_skip(rs, codes, names, sat, row) ==
    LET rec == RecoverCode(row)
        level == indent_level(row)
        codes2 == SetAndPrune(codes, level, rec.raw_code)
        names2 == SetAndPrune(names, level, rec.name)
    IN  IF rec.raw_code = <<>>
        THEN [rows |-> rs, codes |-> codes2, names |-> names2]
        ELSE [rows |-> Append(rs,
                  CatalogRow(normalize_code(rec.raw_code, TOTAL_DIGITS),
                             rec.name, cta_sup(codes, level), row.tipo,
                             SatMatch(sat, rec.name, names2, level))),
              codes |-> codes2,
              names |-> names2]

CatalogLoopBody(rs, codes, names, sat, row) ==
    LET rec == RecoverCode(row)
        level == indent_level(row)
        codes2 == SetAndPrune(codes, level, rec.raw_code)
        names2 == SetAndPrune(names, level, rec.name)
    IN  IF rec.raw_code = <<>>
        THEN [rows |-> rs, codes |-> codes, names |-> names]
        ELSE [rows |-> Append(rs,
                  CatalogRow(normalize_code(rec.raw_code, TOTAL_DIGITS),
                             rec.name, cta_sup(codes, level), row.tipo,
                             SatMatch(sat, rec.name, names2, level))),
              codes |-> codes2,
              names |-> names2]

SatEntry(nivel, codigo) == [nivel |-> nivel, codigo |-> codigo]

\* A reference table with a parsable level, an empty level and an
\* unparsable one.
SatTable ==
    (<<"a","c","t","i","v","o">> :> SatEntry(<<"1">>, <<"1","0","0">>))
    @@ (<<"b","a","n","c","o","s">> :> SatEntry(<<>>, <<"1","0","2",".","0","1">>))
    @@ (<<"c","a","j","a">> :> SatEntry(<<"x">>, <<"1","0","1">>))

SheetRowPool ==
    { SheetRow(<<"1">>, <<"A","c","t","i","v","o">>, <<"A">>, 0),
      SheetRow(<<"1",".","1">>, <<"1",".","1"," ","C","a","j","a">>, <<"A">>, 1),
      SheetRow(<<"1",".","1",".","1">>, <<"C","a","j","a"," ","M","X","N">>, <<"A">>, 2),
      SheetRow(<<"1",".","2">>, <<"B","a","n","c","o","s">>, <<"A">>, 1),
      SheetRow(<<>>, <<" "," "," "," ","1",".","0","5",".","0","3"," ","B","a","n","c","o","s">>, <<>>, 0),
      SheetRow(<<>>, <<"T","o","t","a","l">>, <<>>, 0),
      SheetRow(<<>>, <<"2",".","0"," ","P","a","s","i","v","o">>, <<"P">>, 0) }

\* The SAT workbook: whether load_workbook can read it, and the text of the
\* Nombre, Nivel and Codigo cells of its data rows (<<>> for an empty cell).
SatFile(readable, sat_rows) == [readable |-> readable, rows |-> sat_rows]

SatSheetRow(nombre, nivel, codigo) ==
    [nombre |-> nombre, nivel |-> nivel, codigo |-> codigo]

\* Lines 104-146: a later row with the same name replaces an earlier one and
\* a row without a name is left out.
RECURSIVE FillSatLookup(_, _)
FillSatLookup(lookup, sat_rows) ==
    IF sat_rows = <<>> THEN lookup
    ELSE LET r == Head(sat_rows)
             key == str_lower(strip(strip(r.nombre)))
             entry == SatEntry(strip(r.nivel), strip(r.codigo))
         IN  FillSatLookup(
                 IF strip(r.nombre) = <<>> THEN lookup
                 ELSE [k \in (DOMAIN lookup) \cup {key} |->
                          IF k = key THEN entry ELSE lookup[k]],
                 Tail(sat_rows))

load_sat_lookup_keeps_stale(file) ==
    IF file.readable THEN FillSatLookup(<<>>, file.rows)
    ELSE SatTable

\* Lines 81-151: the lookup, empty when reading the workbook raises.
load_sat_lookup(file) ==
    IF file.readable THEN FillSatLookup(<<>>, file.rows) ELSE <<>>

SatSheet ==
    << SatSheetRow(<<"A","c","t","i","v","o">>, <<"9">>, <<"9","9","9">>),
       SatSheetRow(<<" ","B","a","n","c","o","s"," ">>, <<>>, <<"1","0","2",".","0","1">>),
       SatSheetRow(<<>>, <<"1">>, <<"0","0","0">>),
       SatSheetRow(<<"C","a","j","a">>, <<"x">>, <<"1","0","1">>),
       SatSheetRow(<<"A","C","T","I","V","O">>, <<"1">>, <<"1","0","0">>) >>

SatSheetAlt ==
    << SatSheetRow(<<"P","a","s","i","v","o">>, <<"3">>, <<"2","0","0">>),
       SatSheetRow(<<"C","a","j","a"," ","M","X","N">>, <<" ","+","4">>, <<>>),
       SatSheetRow(<<"A","c","t","i","v","o">>, <<"2",".","0">>, <<"1","0","0",".","0","1">>) >>

\* Lines 179-273: the loop over all the rows of the sheet.
RECURSIVE CatalogLoop(_, _, _, _, _)
CatalogLoop(rs, codes, names, sat, entry_rows) ==
    IF entry_rows = <<>> THEN [rows |-> rs, codes |-> codes, names |-> names]
    ELSE LET after == CatalogLoopBody(rs, codes, names, sat, Head(entry_rows))
         IN  CatalogLoop(after.rows, after.codes, after.names, sat,
                         Tail(entry_rows))

build_catalog_rows(entry_rows, file) ==
    CatalogLoop(<<>>, <<>>, <<>>, load_sat_lookup(file), entry_rows).rows

\* The rows added to the template sheet, each with its cells and its fill.
append_rows_to_template(catalog_rows) ==
    [k \in 1..Len(catalog_rows) |->
        [cells |-> catalog_rows[k].data,
         fill |-> CASE catalog_rows[k].found_in_sat = "None" -> "red"
                    [] catalog_rows[k].found_in_sat = "False" -> "yellow"
                    [] OTHER -> "none"]]

SatFilePool ==
    { SatFile(FALSE, <<>>), SatFile(TRUE, SatSheet), SatFile(TRUE, SatSheetAlt) }

InitCatalog ==
    /\ MainIdle
    /\ AppIdle
    /\ prog = "catalog"
    /\ pc = "sat"
    /\ NormIdle
    /\ RolesIdle
    /\ MergeIdle
    /\ polizas_parsed = <<>> /\ folio = 0
    /\ sat_file \in SatFilePool
    /\ sat_lookup = <<>>
    /\ df = <<>>
    /\ rows = <<>>
    /\ parent_code_by_indent = <<>>
    /\ parent_name_by_indent = <<>>

LoadSat ==
    /\ prog = "catalog" /\ pc = "sat"
    /\ sat_lookup' = load_sat_lookup(sat_file)
    /\ pc' = "loop"
    /\ UNCHANGED <<prog, normVars, roleVars, jrnVars, df, sat_file,
                   parent_code_by_indent, parent_name_by_indent, mergeVars,
                   mainVars, appVars>>

BuildCatalogRowsStep ==
    /\ prog = "catalog" /\ pc = "loop"
    /\ Len(df) < MaxRows
    /\ \E row \in SheetRowPool :
          \E after \in {CatalogLoopBody(rows, parent_code_by_indent,
                                        parent_name_by_indent, sat_lookup, row)} :
              /\ df' = Append(df, row)
              /\ rows' = after.rows
              /\ parent_code_by_indent' = after.codes
              /\ parent_name_by_indent' = after.names
    /\ UNCHANGED <<prog, pc, normVars, roleVars, polizas_parsed, folio,
                   sat_file, sat_lookup, mergeVars,
                   mainVars, appVars>>

NextCatalog == LoadSat \/ BuildCatalogRowsStep

SpecCatalog == InitCatalog /\ [][NextCatalog]_vars

-----------------------------------------------------------------------------
(* Claims about the catalog build                                          *)

InCatalog == prog = "catalog"

\* The sheet rows consumed so far that yield a code.
CodeBearing == {i \in 1..Len(df) : RecoverCode(df[i]).raw_code # <<>>}

\* The output row built from code-bearing sheet row i.
EmittedFor(i) == rows[Cardinality({j \in CodeBearing : j <= i})]

NormalizedCodeOf(i) == normalize_code(RecoverCode(df[i]).raw_code, TOTAL_DIGITS)

\* The earlier code-bearing rows one level above row i that no row in
\* between, at a level shallower than theirs, has discarded.
OpenAncestors(i) ==
    {j \in CodeBearing :
        /\ j < i
        /\ indent_level(df[j]) = indent_level(df[i]) - 1
        /\ \A m \in CodeBearing :
              (j < m /\ m < i) => indent_level(df[m]) >= indent_level(df[j])}

MostRecent(S) == CHOOSE j \in S : \A x \in S : x <= j

\* C3: a level-1 row gets the all-zero root code as parent; a row at level
\* n > 1 gets the normalized code of the most recent earlier code-bearing row
\* at level n-1 that no later shallower row has discarded; an earlier row at
\* level n or deeper is never its parent.
C3_ParentFromAncestorStack ==
    InCatalog =>
        \A i \in CodeBearing :
            LET n == indent_level(df[i])
                parent == EmittedFor(i).data[5]
            IN  /\ n = 1 => parent = Zeros(TOTAL_DIGITS)
                /\ (n > 1 /\ OpenAncestors(i) # {}) =>
                       parent = NormalizedCodeOf(MostRecent(OpenAncestors(i)))
                /\ \A j \in CodeBearing :
                       (j < i /\ indent_level(df[j]) >= n) =>
                           parent # NormalizedCodeOf(j)

\* "1", "1.1", "1.1.1", "1.2" at levels 1, 2, 3, 2: the parent of "1.2" is "1".
C3_Witness ==
    /\ InCatalog
    /\ Len(df) = 4 /\ Len(rows) = 4
    /\ [i \in 1..4 |-> df[i].code] = << <<"1">>, <<"1",".","1">>, <<"1",".","1",".","1">>, <<"1",".","2">> >>
    /\ [i \in 1..4 |-> indent_level(df[i])] = <<1, 2, 3, 2>>
    /\ rows[4].data[2] = <<"1","2","0","0","0","0","0","0">>
    /\ rows[4].data[5] = <<"1","0","0","0","0","0","0","0">>

\* The key under which a display name is looked up in the reference table.
LookupKey(name) == str_lower(strip(name))

\* The display name of the open ancestor of row i, <<>> when it has none.
ParentNameOf(i) ==
    IF OpenAncestors(i) = {} THEN <<>>
    ELSE RecoverCode(df[MostRecent(OpenAncestors(i))]).name

\* C11: every emitted row has exactly one of three outcomes: its name is in
\* the reference table (ledger group = integer parse of the level, 2 when
\* empty or unparsable; classification id = the entry's code; confident);
\* else its parent's name is (ledger group 2, the parent's entry's code,
\* inherited); else ledger group 2, empty id, unmatched.
C11_ThreeOutcomes ==
    InCatalog =>
        \A i \in CodeBearing :
            LET r == EmittedFor(i)
                key == LookupKey(RecoverCode(df[i]).name)
                pname == ParentNameOf(i)
            IN  IF key \in DOMAIN sat_lookup
                THEN /\ r.data[8] = IntOrTwo(sat_lookup[key].nivel)
                     /\ r.data[17] = sat_lookup[key].codigo
                     /\ r.found_in_sat = "True"
                ELSE IF pname # <<>> /\ LookupKey(pname) \in DOMAIN sat_lookup
                THEN /\ r.data[8] = 2
                     /\ r.data[17] = sat_lookup[LookupKey(pname)].codigo
                     /\ r.found_in_sat = "False"
                ELSE /\ r.data[8] = 2
                     /\ r.data[17] = <<>>
                     /\ r.found_in_sat = "None"

\* "Activo" (level "1"), "Caja" (level "x"), "Caja MXN" under "Caja", and
\* "Pasivo": confident with 1, confident with 2, inherited, unmatched.
C11_Witness ==
    /\ InCatalog /\ sat_lookup = SatTable
    /\ Len(rows) = 4
    /\ rows[1].found_in_sat = "True" /\ rows[1].data[8] = 1
    /\ rows[1].data[17] = <<"1","0","0">>
    /\ rows[2].found_in_sat = "True" /\ rows[2].data[8] = 2
    /\ rows[3].found_in_sat = "False" /\ rows[3].data[17] = <<"1","0","1">>
    /\ rows[4].found_in_sat = "None" /\ rows[4].data[17] = <<>>

InLoop == InCatalog /\ pc = "loop"

\* The columns of an output row that the reference table annotates: the
\* ledger group and the classification id.
AnnotationColumns == {8, 17}

SameButAnnotations(out1, out2) ==
    /\ Len(out1) = Len(out2)
    /\ \A k \in 1..Len(out1) :
          \A c \in (1..17) \ AnnotationColumns :
              out1[k].cells[c] = out2[k].cells[c]

\* C12: the run on the same sheet rows with any other reference table emits
\* the same rows in the same order, with the same code, display name and
\* parent code; only the ledger group, the classification id and the
\* highlight differ.
C12_SameRowsUnderAnyTable ==
    InLoop =>
        /\ rows = build_catalog_rows(df, sat_file)
        /\ \A other \in SatFilePool :
              SameButAnnotations(append_rows_to_template(rows),
                  append_rows_to_template(build_catalog_rows(df, other)))

\* Three emitted rows whose highlight under another table differs.
C12_Witness ==
    /\ InLoop /\ Len(rows) = 3
    /\ \E other \in SatFilePool :
          /\ append_rows_to_template(rows)[3].fill = "red"
          /\ append_rows_to_template(build_catalog_rows(df, other))[3].fill = "none"
          /\ append_rows_to_template(rows)[1].cells[8]
                # append_rows_to_template(build_catalog_rows(df, other))[1].cells[8]

\* C13: when the reference workbook cannot be read the lookup is empty and
\* every emitted row is unmatched, with ledger group 2 and an empty
\* classification id; the rows with a code are all still emitted.
C13_UnreadableTableAllUnmatched ==
    (InLoop /\ ~sat_file.readable) =>
        /\ sat_lookup = <<>>
        /\ Len(rows) = Cardinality(CodeBearing)
        /\ \A k \in 1..Len(rows) :
              /\ rows[k].found_in_sat = "None"
              /\ rows[k].data[8] = 2
              /\ rows[k].data[17] = <<>>

\* An unreadable workbook and a full sheet: rows were emitted, among them one
\* whose name and one whose parent's name a readable table would have found.
C13_Witness ==
    /\ InLoop /\ ~sat_file.readable
    /\ Len(df) = MaxRows /\ Len(rows) >= 3
    /\ \E k \in 1..Len(rows) :
          build_catalog_rows(df, SatFile(TRUE, SatSheet))[k].found_in_sat = "True"
    /\ \E k \in 1..Len(rows) :
          build_catalog_rows(df, SatFile(TRUE, SatSheet))[k].found_in_sat = "False"

\* One or more groups of digits separated by single dots.
IsDottedDigits(p) ==
    /\ p # <<>>
    /\ \A k \in 1..Len(p) : IsDigit(p[k]) \/ p[k] = "."
    /\ p[1] # "." /\ p[Len(p)] # "."
    /\ \A k \in 1..(Len(p) - 1) : ~(p[k] = "." /\ p[k + 1] = ".")

\* The lengths n at which the name splits into a dotted numeric prefix of n
\* characters, whitespace, and further text.
NumericPrefixLens(name) ==
    {n \in 1..(Len(name) - 2) :
        /\ IsDottedDigits(SubSeq(name, 1, n))
        /\ name[n + 1] \in WhitespaceChars
        /\ strip(SubSeq(name, n + 1, Len(name))) # <<>>}

HasNoCodeCell(row) == strip(row.code) = <<>>

LastRow == df[Len(df)]

\* The last row consumed has no code cell and a name with a numeric prefix.
CodeInNameOnly ==
    /\ InLoop /\ df # <<>>
    /\ HasNoCodeCell(LastRow)
    /\ NumericPrefixLens(strip(LastRow.text)) # {}

PrefixOfLast ==
    LET name == strip(LastRow.text)
    IN  SubSeq(name, 1, CHOOSE n \in NumericPrefixLens(name) : TRUE)

RemainderOfLast ==
    LET name == strip(LastRow.text)
    IN  strip(SubSeq(name, 1 + (CHOOSE n \in NumericPrefixLens(name) : TRUE),
                     Len(name)))

RECURSIVE DotZeros(_)
DotZeros(k) == IF k = 0 THEN <<>> ELSE <<".", "0">> \o DotZeros(k - 1)

\* p without the ".0" groups it ends with.
WithoutTrailingDotZeros(p) ==
    CHOOSE q \in {SubSeq(p, 1, n) : n \in 0..Len(p)} :
        /\ \E k \in 0..Len(p) : p = q \o DotZeros(k)
        /\ ~(Len(q) >= 2 /\ SubSeq(q, Len(q) - 1, Len(q)) = <<".", "0">>)

\* The row was emitted under the display name that remains after the prefix.
EmittedWithRemainder ==
    /\ Len(df) \in CodeBearing
    /\ rows # <<>>
    /\ rows[Len(rows)].data[3] = RemainderOfLast
    /\ parent_name_by_indent[indent_level(LastRow)] = RemainderOfLast

\* C14 as claimed: the recovered raw code is the numeric prefix itself.
C14_PrefixIsRawCode ==
    CodeInNameOnly =>
        /\ EmittedWithRemainder
        /\ parent_code_by_indent[indent_level(LastRow)] = PrefixOfLast
        /\ rows[Len(rows)].data[2] = normalize_code(PrefixOfLast, TOTAL_DIGITS)

\* C14, amended: the recovered raw code is the numeric prefix without the
\* ".0" groups it ends with, the emitted code is that raw code normalized
\* with 8 digits, and the display name is the remainder.
C14_PrefixSanitizedIsRawCode ==
    CodeInNameOnly =>
        /\ EmittedWithRemainder
        /\ parent_code_by_indent[indent_level(LastRow)]
              = WithoutTrailingDotZeros(PrefixOfLast)
        /\ rows[Len(rows)].data[2]
              = normalize_code(WithoutTrailingDotZeros(PrefixOfLast), TOTAL_DIGITS)

\* "1.05.03 Bancos" without a code cell, then "2.0 Pasivo" without one.
C14_Witness ==
    /\ InLoop /\ Len(df) = 2 /\ Len(rows) = 2
    /\ HasNoCodeCell(df[1]) /\ strip(df[1].text) = <<"1",".","0","5",".","0","3"," ","B","a","n","c","o","s">>
    /\ rows[1].data[2] = <<"1","0","5","0","3","0","0","0">> /\ rows[1].data[3] = <<"B","a","n","c","o","s">>
    /\ CodeInNameOnly /\ PrefixOfLast = <<"2",".","0">>
    /\ parent_code_by_indent[1] = <<"2">>
    /\ rows[2].data[2] = <<"2","0","0","0","0","0","0","0">> /\ rows[2].data[3] = <<"P","a","s","i","v","o">>

\* C15: one output row per sheet row that yields a raw code, in sheet order,
\* carrying that row's code and name; rows without a code emit nothing and
\* rows repeating a code are all emitted.
C15_OneRowPerCodeBearingRow ==
    InLoop =>
        /\ Len(rows) = Cardinality(CodeBearing)
        /\ \A i \in CodeBearing :
              /\ EmittedFor(i).data[2] = NormalizedCodeOf(i)
              /\ EmittedFor(i).data[3] = RecoverCode(df[i]).name
              /\ EmittedFor(i).data[6] = strip(df[i].tipo)

\* The same account twice around a row without a code: two rows out of three.
C15_Witness ==
    /\ InLoop /\ Len(df) = 4 /\ Len(rows) = 3
    /\ df[1] = df[3] /\ 2 \notin CodeBearing
    /\ rows[1].data[2] = rows[2].data[2]
    /\ rows[3].data[2] # rows[1].data[2]

-----------------------------------------------------------------------------
(* Catalog merge: merge_accounts.py                                        *)

\* normalize_code of merge_accounts.py: the code as text, stripped.
merge_normalize_code(code) == IF code = <<>> THEN <<>> ELSE strip(code)

\* One row of a catalog workbook: its cells, <<>> for an empty cell.
AccountSheetRow(tipo_cell, codigo, nombre) == <<tipo_cell, codigo, nombre>>

Account(codigo, row_data, original_index) ==
    [codigo |-> codigo, row_data |-> row_data, original_index |-> original_index]

\* The loop of read_accounts_file over the data rows: the rows of type C
\* with a code not found before.
RECURSIVE ReadAccountRows(_, _, _, _)
ReadAccountRows(account_rows, codes_found, data, i) ==
    IF i > Len(data) THEN account_rows
    ELSE LET codigo_normalizado == merge_normalize_code(data[i][2])
             is_new == /\ str_upper(strip(data[i][1])) = <<"C">>
                       /\ codigo_normalizado # <<>>
                       /\ codigo_normalizado \notin codes_found
         IN  IF is_new
             THEN ReadAccountRows(
                      Append(account_rows, Account(codigo_normalizado, data[i], i - 1)),
                      codes_found \cup {codigo_normalizado}, data, i + 1)
             ELSE ReadAccountRows(account_rows, codes_found, data, i + 1)

\* pandas takes the first row of the sheet as the header.
read_accounts_file(sheet) ==
    ReadAccountRows(<<>>, {}, IF sheet = <<>> THEN <<>> ELSE Tail(sheet), 1)

\* Lines 82-91: the additional accounts whose code the base does not hold.
SelectNewAccounts_no_base_test(base_accs, additional_accs) == additional_accs

SelectNewAccounts_raw_base_codes(base_accs, additional_accs) ==
    SelectSeq(additional_accs,
              LAMBDA acc : acc.codigo \notin
                  {base_accs[k].row_data[2] : k \in 1..Len(base_accs)})

SelectNewAccounts(base_accs, additional_accs) ==
    LET base_codes == {base_accs[k].codigo : k \in 1..Len(base_accs)}
    IN  SelectSeq(additional_accs, LAMBDA acc : acc.codigo \notin base_codes)

\* Lines 102-116: the rows of the base sheet that are not wholly empty.
TemplateData(sheet) ==
    SelectSeq(sheet, LAMBDA r : \E c \in 1..Len(r) : r[c] # <<>>)

\* Lines 122-154: the written sheet, base rows first, then the new accounts
\* in green.
WrittenRows(sheet, new_accs) ==
    [k \in 1..Len(TemplateData(sheet)) |->
        [cells |-> TemplateData(sheet)[k], style |-> "default"]]
    \o [k \in 1..Len(new_accs) |->
        [cells |-> new_accs[k].row_data, style |-> "green"]]

HeaderRow == AccountSheetRow(<<"T","i","p","o">>, <<"C","o","d","i","g","o">>, <<"N","o","m","b","r","e">>)

AccountRowPool ==
    { AccountSheetRow(<<"C">>, <<"1","0","0","0","0","0","0","0">>, <<"A","c","t","i","v","o">>),
      AccountSheetRow(<<"C">>, <<" ","1","0","0","0","0","0","0","0"," ">>, <<"A","c","t","i","v","o"," ","b","i","s">>),
      AccountSheetRow(<<" ","c">>, <<"1","1","0","0","0","0","0","0">>, <<"C","a","j","a">>),
      AccountSheetRow(<<"C">>, <<"1","2","0","0","0","0","0","0">>, <<"B","a","n","c","o","s">>),
      AccountSheetRow(<<"X">>, <<"1","3","0","0","0","0","0","0">>, <<"N","o","t","a">>),
      AccountSheetRow(<<"C">>, <<>>, <<"S","i","n"," ","c","o","d","i","g","o">>),
      AccountSheetRow(<<>>, <<>>, <<>>) }

CatalogSheets == {<<HeaderRow>> \o body : body \in SeqsUpTo(AccountRowPool, MaxSheetRows)}

InitMerge ==
    /\ MainIdle
    /\ AppIdle
    /\ prog = "merge"
    /\ pc = "start"
    /\ NormIdle
    /\ RolesIdle
    /\ JournalIdle
    /\ CatalogIdle
    /\ base_file \in CatalogSheets
    /\ additional_file \in CatalogSheets
    /\ base_accounts = <<>>
    /\ additional_accounts = <<>>
    /\ new_accounts = <<>>
    /\ output_file = <<>>

ReadAccountsFiles ==
    /\ prog = "merge" /\ pc = "start"
    /\ base_accounts' = read_accounts_file(base_file)
    /\ additional_accounts' = read_accounts_file(additional_file)
    /\ pc' = "read"
    /\ UNCHANGED <<prog, normVars, roleVars, jrnVars, catVars, base_file,
                   additional_file, new_accounts, output_file,
                   mainVars, appVars>>

FindNewAccounts ==
    /\ prog = "merge" /\ pc = "read"
    /\ new_accounts' = SelectNewAccounts(base_accounts, additional_accounts)
    /\ pc' = "selected"
    /\ UNCHANGED <<prog, normVars, roleVars, jrnVars, catVars, base_file,
                   additional_file, base_accounts, additional_accounts, output_file,
                   mainVars, appVars>>

WriteResult ==
    /\ prog = "merge" /\ pc = "selected"
    /\ output_file' = WrittenRows(base_file, new_accounts)
    /\ pc' = "written"
    /\ UNCHANGED <<prog, normVars, roleVars, jrnVars, catVars, base_file,
                   additional_file, base_accounts, additional_accounts, new_accounts,
                   mainVars, appVars>>

NextMerge == ReadAccountsFiles \/ FindNewAccounts \/ WriteResult

SpecMerge == InitMerge /\ [][NextMerge]_vars

-----------------------------------------------------------------------------
(* Claims about the catalog merge                                          *)

InMerge == prog = "merge"
Written == InMerge /\ pc = "written"

\* An account row: type C, whatever its case and padding, and a code.
IsAccountRow(r) == str_upper(strip(r[1])) = <<"C">> /\ strip(r[2]) # <<>>

CodeOf(r) == strip(r[2])

IsBlankRow(r) == \A c \in 1..Len(r) : r[c] = <<>>

\* The rows of seq at the positions in S, in order.
RowsAt(seq, S) ==
    [k \in 1..Cardinality(S) |->
        seq[CHOOSE i \in S : Cardinality({j \in S : j <= i}) = k]]

BaseCodes ==
    {CodeOf(base_file[k]) : k \in {i \in 2..Len(base_file) : IsAccountRow(base_file[i])}}

\* The rows of the additional catalog that the merge adds: account rows whose
\* code the base does not hold, the first of each code only.
AddedPositions ==
    {k \in 2..Len(additional_file) :
        /\ IsAccountRow(additional_file[k])
        /\ CodeOf(additional_file[k]) \notin BaseCodes
        /\ \A j \in 2..(k - 1) :
              IsAccountRow(additional_file[j]) =>
                  CodeOf(additional_file[j]) # CodeOf(additional_file[k])}

BaseThenAdded ==
    [k \in 1..Len(output_file) |-> output_file[k].cells]
        = RowsAt(base_file, {i \in 1..Len(base_file) : ~IsBlankRow(base_file[i])})
          \o RowsAt(additional_file, AddedPositions)

\* No code is held by two account rows of the result.
EachCodeOnce ==
    \A i, j \in 1..Len(output_file) :
        (/\ i < j
         /\ IsAccountRow(output_file[i].cells)
         /\ IsAccountRow(output_file[j].cells))
            => CodeOf(output_file[i].cells) # CodeOf(output_file[j].cells)

\* C16 as claimed: the result is the base rows followed by the additional
\* rows whose code the base lacks, and of every code only the first
\* occurrence is kept.
C16_FirstOccurrenceOnly == Written => (BaseThenAdded /\ EachCodeOnce)

\* C16, amended: the result is every non-empty row of the base, repeated
\* codes included, followed by the account rows of the additional catalog
\* whose code the base lacks, the first of each code only.
C16_BaseRowsThenNewAccounts ==
    Written =>
        /\ BaseThenAdded
        /\ \A k \in 1..Len(output_file) :
              output_file[k].style =
                  IF k <= Len(output_file) - Cardinality(AddedPositions)
                  THEN "default" ELSE "green"

\* A base that holds one code twice and an additional catalog whose two rows
\* hold one new code: the base rows are both kept and one row is added.
C16_Witness ==
    /\ Written
    /\ Len(base_file) = 3 /\ Len(additional_file) = 3
    /\ CodeOf(base_file[2]) = CodeOf(base_file[3]) /\ IsAccountRow(base_file[2])
    /\ IsAccountRow(base_file[3])
    /\ IsAccountRow(additional_file[2]) /\ IsAccountRow(additional_file[3])
    /\ CodeOf(additional_file[2]) = CodeOf(additional_file[3])
    /\ additional_file[2] # additional_file[3]
    /\ Len(output_file) = 4
    /\ output_file[4].cells = additional_file[2]

AccountCodes(sheet_rows) ==
    {CodeOf(sheet_rows[k]) :
        k \in {i \in 1..Len(sheet_rows) : IsAccountRow(sheet_rows[i])}}

\* C17: merging a catalog with itself finds no new account, and the account
\* codes of the result are those of the original.
C17_SelfMergeAddsNothing ==
    (InMerge /\ additional_file = base_file) =>
        /\ pc \in {"selected", "written"} => new_accounts = <<>>
        /\ pc = "written" =>
              /\ AccountCodes([k \in 1..Len(output_file) |-> output_file[k].cells])
                    = AccountCodes(base_file)
              /\ \A k \in 1..Len(output_file) : output_file[k].style = "default"

\* A catalog of two accounts, one with a padded code, merged with itself.
C17_Witness ==
    /\ Written /\ additional_file = base_file
    /\ Len(base_accounts) = 2 /\ Len(additional_accounts) = 2
    /\ \E k \in 2..3 : base_file[k][2] # strip(base_file[k][2])
    /\ new_accounts = <<>>
    /\ Len(output_file) = 3

-----------------------------------------------------------------------------
(* Claims about the rows of one journal entry                              *)

\* The rows this step appended to the output.
Appended == SubSeq(rows', Len(rows) + 1, Len(rows'))

EmittedOne == InJournal /\ ConsumedOne /\ rows' # rows

\* The positions of the rows of one type in a block of rows.
PositionsOf(block, type) == {i \in 1..Len(block) : block[i][1] = type}

\* The k-th smallest member of a set of positions.
Kth(S, k) == CHOOSE i \in S : Cardinality({j \in S : j <= i}) = k

\* The block is laid out as one journal entry with the postings trans: a P
\* row first and nowhere else; one M1 row per posting, in posting order;
\* right after each M1 row the AM rows of that posting's document
\* identifiers and nothing else; then only AD rows.
LaidOutAsEntry(block, trans) ==
    LET m1 == PositionsOf(block, "M1")
        ad == PositionsOf(block, "AD")
        first_ad == IF ad = {} THEN Len(block) + 1 ELSE Kth(ad, 1)
        EndOf(k) == IF k < Cardinality(m1) THEN Kth(m1, k + 1) ELSE first_ad
    IN  /\ block # <<>>
        /\ PositionsOf(block, "P") = {1}
        /\ \A i \in 1..Len(block) : block[i][1] \in {"P", "M1", "AM", "AD"}
        /\ ad = first_ad..Len(block)
        /\ Cardinality(m1) = Len(trans)
        /\ trans # <<>> => Kth(m1, 1) = 2
        /\ \A k \in 1..Len(trans) :
              /\ block[Kth(m1, k)][8]
                    = str_replace(trans[k].Concepto, S_Pago_efectivo_sep, <<>>)
              /\ [i \in 1..(EndOf(k) - Kth(m1, k) - 1) |->
                     block[Kth(m1, k) + i]]
                    = [i \in 1..Len(PostingUuids(trans[k].CompNal)) |->
                          <<"AM", PostingUuids(trans[k].CompNal)[i]>> \o EmptyCells(9)]

\* C18: the rows of every emitted entry are one P row, then for each posting
\* in input order its M1 row and right after it that posting's AM rows, then
\* the AD rows; being appended as one block that starts with its P row, no
\* AD row precedes an M1 row of its entry or follows the next entry's P row.
C18_RowOrderWithinEntry ==
    [][EmittedOne => LaidOutAsEntry(Appended, LastPoliza'.Transacciones)]_vars

\* Two entries emitted; the first has two postings with one and two
\* attachments and three AD rows after them, then comes the second P row.
C18_Witness ==
    /\ InJournal /\ Len(polizas_parsed) = 2 /\ Len(PRows) = 2
    /\ Len(rows) >= 10
    /\ [i \in 1..10 |-> rows[i][1]]
          = <<"P", "M1", "AM", "M1", "AM", "AM", "AD", "AD", "AD", "P">>

\* The document identifiers attached to the postings of an entry.
AttachedIds(trans) ==
    UNION {{PostingUuids(trans[k].CompNal)[i] :
               i \in 1..Len(PostingUuids(trans[k].CompNal))} : k \in 1..Len(trans)}

\* C19: an emitted entry has exactly one AD row per distinct document
\* identifier attached to its postings.
C19_OneTrailerPerIdentifier ==
    [][EmittedOne =>
          \A u \in AttachedIds(LastPoliza'.Transacciones) :
              Cardinality({i \in PositionsOf(Appended, "AD") : Appended[i][2] = u}) = 1]_vars

-----------------------------------------------------------------------------
(* Specification SpecMovement: the M1 row of one posting, as both journal  *)
(* builders compute it, for credit and debit fields of any text            *)

AmountChars == {"0", "1", "-", ".", " ", "x"}

MovementPoliza ==
    Poliza(<<"2","0","2","4","-","0","1","-","1","5">>, <<"C","o","b","r","o">>, <<"B","N","K","1","/","2","0","2","4","/","0","0","0","1">>, <<>>)

\* A source identifier of n characters, no two neighbours alike.
ReferenceOfLen(n) ==
    [i \in 1..n |-> << "0", "1", "2", "3", "4", "5", "6", "7", "8", "9" >>[(i % 10) + 1]]

ReferenceLens == {0, 1, 29, 30, 31, 45}

ReferencePool ==
    {ReferenceOfLen(n) : n \in ReferenceLens}
    \cup {<<"B","N","K","1","/","2","0","2","4","/","0","0","0","6"," ","P","a","g","o"," ","e","f","e","c","t","i","v","o"," ","c","a","j","a"," ","0","1">>}

ConceptPool ==
    { <<>>, <<"C","o","b","r","o">>, <<"P","a","g","o"," ","e","f","e","c","t","i","v","o"," ","-"," ","F","1">>, <<"P","a","g","o"," ","e","f","e","c","t","i","v","o"," ","-"," ">>,
      <<"A","n","t","i","c","i","p","o"," ","P","a","g","o"," ","e","f","e","c","t","i","v","o"," ","-"," ","F","2">>, <<"P","a","g","o"," ","e","f","e","c","t","i","v","o"," ","-"," ","A"," ","P","a","g","o"," ","e","f","e","c","t","i","v","o"," ","-"," ","B">>,
      <<"p","a","g","o"," ","e","f","e","c","t","i","v","o"," ","-"," ","F","3">>, <<"P","a","g","o"," ","e","f","e","c","t","i","v","o"," ","F","4">>, <<" ","P","a","g","o"," ","e","f","e","c","t","i","v","o"," ","-"," ","F","5">> }

InitMovement ==
    /\ MainIdle
    /\ AppIdle
    /\ prog \in {"movement_v1", "movement_v2"}
    /\ pc = "posting"
    /\ NormIdle
    /\ CatalogIdle
    /\ MergeIdle
    /\ groups_csv = <<>> /\ groups = <<>> /\ account_role_index = <<>>
    /\ roles = <<>> /\ tipo = 0
    /\ folio = 1
    /\ rows = <<>>
    /\ \/ /\ polizas_parsed = <<MovementPoliza>>
          /\ \E haber, debe \in StringsUpTo(AmountChars, MaxAmountLen) :
                transacciones = <<Posting(<<"C","o","b","r","o">>, <<"C","l","i","e","n","t","e","s">>, <<"1",".","0","5",".","0","1">>,
                                          haber, debe, <<>>)>>
       \/ /\ \E ref \in ReferencePool :
                polizas_parsed = <<Poliza(<<"2","0","2","4","-","0","1","-","1","5">>, <<"C","o","b","r","o">>, ref, <<>>)>>
          /\ \E concepto \in ConceptPool :
                transacciones = <<Posting(concepto, <<"C","l","i","e","n","t","e","s">>, <<"1",".","0","5",".","0","1">>,
                                          <<"0">>, <<"1">>, <<>>)>>

BuildMovementRow ==
    /\ prog \in {"movement_v1", "movement_v2"} /\ pc = "posting"
    /\ rows' = <<M1Row(IF prog = "movement_v1" THEN 1 ELSE 2, polizas_parsed[1],
                       transacciones[1])>>
    /\ pc' = "row"
    /\ UNCHANGED <<prog, normVars, roleVars, polizas_parsed, folio, catVars,
                   mergeVars,
                   mainVars, appVars>>

NextMovement == BuildMovementRow

SpecMovement == InitMovement /\ [][NextMovement]_vars

InMovement == prog \in {"movement_v1", "movement_v2"} /\ pc = "row"

\* The magnitude of an amount field, in ten-thousandths: 0 when the field is
\* empty or is not a number.
Magnitude(field) ==
    IF field # <<>> /\ ParseFloat(field).ok THEN Abs(ParseFloat(field).units) ELSE 0

\* C20: the movement flag is 1 with the credit magnitude as amount whenever
\* that magnitude is not zero, whatever the debit; otherwise the flag is 0
\* with the debit magnitude; a field that is not a number counts as 0. The
\* amount is written rounded to two decimals.
C20_CreditTakesPrecedence ==
    InMovement =>
        LET credit == Magnitude(transacciones[1].Haber)
            debit == Magnitude(transacciones[1].Debe)
        IN  /\ Len(rows) = 1
            /\ credit # 0 => (rows[1][4] = 1 /\ rows[1][5] = Round2(credit))
            /\ credit = 0 => (rows[1][4] = 0 /\ rows[1][5] = Round2(debit))

\* Credit -1 and debit 1 on the same posting: a credit movement of 1.00.
C20_Witness ==
    /\ InMovement
    /\ transacciones[1].Haber = <<"-","1">> /\ transacciones[1].Debe = <<"1">>
    /\ rows[1][4] = 1 /\ rows[1][5] = 100

\* C21: the reference of a posting row is the entry's source identifier when
\* it has 30 characters or fewer, and its first 30 characters otherwise.
C21_ReferenceFirstThirty ==
    InMovement =>
        LET id == polizas_parsed[1].NumUnIdenPol
        IN  /\ Len(id) <= 30 => rows[1][3] = id
            /\ Len(id) > 30 =>
                  /\ Len(rows[1][3]) = 30
                  /\ \A i \in 1..30 : rows[1][3][i] = id[i]

\* An identifier of 45 characters, cut to its first 30.
C21_Witness ==
    /\ InMovement
    /\ Len(polizas_parsed[1].NumUnIdenPol) = 45
    /\ Len(rows[1][3]) = 30
    /\ rows[1][3][30] = polizas_parsed[1].NumUnIdenPol[30]

Boilerplate == <<"P","a","g","o"," ","e","f","e","c","t","i","v","o"," ","-"," ">>

\* The positions of the characters of a concept that lie inside an
\* occurrence of the boilerplate phrase.
InsideBoilerplate(concepto) ==
    {i \in 1..Len(concepto) :
        \E o \in 1..i :
            /\ i < o + Len(Boilerplate)
            /\ o + Len(Boilerplate) - 1 <= Len(concepto)
            /\ SubSeq(concepto, o, o + Len(Boilerplate) - 1) = Boilerplate}

\* C22 as claimed: the description is the concept without the phrase when
\* the concept starts with it, and the concept itself otherwise.
C22_PrefixStripped ==
    InMovement =>
        LET concepto == transacciones[1].Concepto
        IN  rows[1][8] =
                IF StartsWith(concepto, Boilerplate)
                THEN SubSeq(concepto, Len(Boilerplate) + 1, Len(concepto))
                ELSE concepto

\* C22, amended: the description is the concept without any occurrence of
\* the phrase, wherever in the concept it stands; every other character is
\* kept, in order.
C22_EveryOccurrenceStripped ==
    InMovement =>
        LET concepto == transacciones[1].Concepto
        IN  rows[1][8] =
                RowsAt(concepto, (1..Len(concepto)) \ InsideBoilerplate(concepto))

\* The phrase in the middle of a concept is removed too.
C22_Witness ==
    /\ InMovement
    /\ transacciones[1].Concepto = <<"A","n","t","i","c","i","p","o"," ","P","a","g","o"," ","e","f","e","c","t","i","v","o"," ","-"," ","F","2">>
    /\ rows[1][8] = <<"A","n","t","i","c","i","p","o"," ","F","2">>

-----------------------------------------------------------------------------
(* Specification SpecPolicyA: determine_tipopol applied to one entry       *)

PolicyAIds ==
    { <<"B","N","K","1","/","2","0","2","4","/","0","0","0","1">>, <<"I","N","V","/","2","0","2","4","/","0","0","0","7">>, <<"F","A","C","T","U","/","0","0","0","1">>, <<"B","N","K","1","/","I","N","V","/","0","0","0","2">>,
      <<"b","n","k","1","/","f","a","c","t","u","/","3">>, <<"M","I","S","C","/","0","0","0","9">> }

PolicyAConcepts ==
    { <<"C","o","b","r","o">>, <<"O","p","e","r","a","c","i","o","n","e","s"," ","V","a","r","i","a","s">>, <<"E","f","f","e","c","t","i","v","e","l","y"," ","P","a","i","d"," ","0","1">>,
      <<"O","p","e","r","a","c","i","o","n","e","s"," ","v","a","r","i","a","s"," ","e","f","f","e","c","t","i","v","e","l","y"," ","p","a","i","d">> }

PolicyAPostings ==
    { Posting(<<"C","o","b","r","o">>, <<"C","l","i","e","n","t","e","s">>, <<"1",".","0","5",".","0","1">>, <<"1">>, <<"0">>, <<>>),
      Posting(<<"P","a","g","o">>, <<"P","r","o","v","e","e","d","o","r","e","s">>, <<"2",".","0","1">>, <<"0">>, <<"1">>, <<>>),
      Posting(<<"I","V","A"," ","t","r","a","s","l","a","d","a","d","o">>, <<"I","m","p","u","e","s","t","o","s">>, <<"2",".","0","8">>, <<"1">>, <<"0">>, <<>>),
      Posting(<<"I","V","A"," ","a","c","r","e","d","i","t","a","b","l","e">>, <<"B","a","n","c","o">>, <<"1",".","0","2">>, <<"0">>, <<"1">>, <<>>),
      Posting(<<"D","e","p","o","s","i","t","o"," ","I","N","V"," ","7">>, <<"B","a","n","c","o">>, <<"1",".","0","2">>, <<"0">>, <<"1">>, <<>>),
      Posting(<<"T","r","a","s","p","a","s","o"," ","a"," ","c","u","e","n","t","a">>, <<"T","r","a","n","s","i","t","o","r","i","a">>, <<"1",".","0","9">>, <<"0">>, <<"1">>, <<>>),
      Posting(<<"N","o","m","i","n","a">>, <<"S","u","e","l","d","o","s">>, <<"6",".","0","2">>, <<"0">>, <<"1">>, <<>>) }

InitPolicyA ==
    /\ MainIdle
    /\ AppIdle
    /\ prog = "policy_a"
    /\ pc = "parsed"
    /\ NormIdle
    /\ CatalogIdle
    /\ MergeIdle
    /\ groups_csv = <<>> /\ groups = <<>> /\ account_role_index = <<>>
    /\ transacciones = <<>> /\ roles = <<>> /\ tipo = 0
    /\ rows = <<>> /\ folio = 1
    /\ \E id \in PolicyAIds, concepto \in PolicyAConcepts,
          trans \in SeqsUpTo(PolicyAPostings, MaxPostings) :
          polizas_parsed = <<Poliza(<<"2","0","2","4","-","0","1","-","1","5">>, concepto, id, trans)>>

ClassifyEntryA ==
    /\ prog = "policy_a" /\ pc = "parsed"
    /\ tipo' = determine_tipopol(polizas_parsed[1].NumUnIdenPol,
                                 polizas_parsed[1].Concepto,
                                 polizas_parsed[1].Transacciones)
    /\ pc' = "classified"
    /\ UNCHANGED <<prog, normVars, groups_csv, groups, account_role_index,
                   transacciones, roles, jrnVars, catVars, mergeVars,
                   mainVars, appVars>>

NextPolicyA == ClassifyEntryA

SpecPolicyA == InitPolicyA /\ [][NextPolicyA]_vars

InPolicyA == prog = "policy_a" /\ pc = "classified"

EntryA == polizas_parsed[1]

IdHas(w) == Contains(str_upper(EntryA.NumUnIdenPol), w)

ConceptHas(w) == Contains(text_lower(EntryA.Concepto), w)

SomePostingHas(w) ==
    \E i \in 1..Len(EntryA.Transacciones) :
        Contains(PostingTexts(EntryA.Transacciones)[i], w)

SomePostingHasBoth(w1, w2) ==
    \E i \in 1..Len(EntryA.Transacciones) :
        /\ Contains(PostingTexts(EntryA.Transacciones)[i], w1)
        /\ Contains(PostingTexts(EntryA.Transacciones)[i], w2)

SuspenseEntry == SomePostingHas(<<"c","u","e","n","t","a"," ","t","r","a","n","s","i","t","o","r","i","a">>)

InvoiceOrMiscEntry ==
    \/ IdHas(<<"I","N","V","/">>)
    \/ IdHas(<<"F","A","C","T","U","/">>)
    \/ ConceptHas(<<"o","p","e","r","a","c","i","o","n","e","s"," ","v","a","r","i","a","s">>)

PaidTaxRule ==
    /\ ConceptHas(<<"e","f","f","e","c","t","i","v","e","l","y"," ","p","a","i","d">>)
    /\ SomePostingHas(<<"i","v","a"," ","t","r","a","s","l","a","d">>) \/ SomePostingHas(<<"i","v","a"," ","a","c","r","e","d","i","t">>)

BankPartyRule ==
    /\ IdHas(<<"B","N","K">>)
    /\ \/ SomePostingHas(<<"c","l","i","e","n","t","e","s">>)
       \/ SomePostingHas(<<"p","r","o","v","e","e","d","o","r","e","s">>)
       \/ SomePostingHas(<<"g","a","s","t","o","s">>)
       \/ SomePostingHas(<<"c","o","m","i","s","i","o","n","e","s">>)

LaterRule ==
    \/ PaidTaxRule
    \/ BankPartyRule
    \/ IdHas(<<"B","N","K">>) /\ SomePostingHasBoth(<<"b","a","n","c","o">>, <<"f","a","c","t","u">>)
    \/ IdHas(<<"B","N","K">>) /\ SomePostingHasBoth(<<"b","a","n","c","o">>, <<"i","n","v">>)
    \/ IdHas(<<"B","N","K">>) /\ SomePostingHasBoth(<<"b","a","n","c","o">>,
                                       <<"s","a","t"," ","i","m","p","u","e","s","t","o","s">>)
    \/ SomePostingHasBoth(<<"b","a","n","c","o">>, <<"i","v","a"," ","a","c","r","e","d","i","t">>)

\* C23: under Policy A, once the suspense check has passed, an entry whose
\* identifier carries "INV/" or "FACTU/" or whose concept carries
\* "operaciones varias" is classified 3 whatever later rule it also
\* satisfies, and an entry that satisfies no rule at all is classified 3.
C23_EarlierRuleDecides ==
    InPolicyA /\ ~SuspenseEntry =>
        /\ InvoiceOrMiscEntry => tipo = 3
        /\ ~InvoiceOrMiscEntry /\ ~LaterRule => tipo = 3

C23_Witness ==
    /\ InPolicyA
    /\ ~SuspenseEntry
    /\ IdHas(<<"I","N","V","/">>)
    /\ PaidTaxRule
    /\ BankPartyRule
    /\ tipo = 3

-----------------------------------------------------------------------------
(* entry_to_template.py: preprocess_entry_file and main                    *)

MaxMagnitude == 2

MaxFileRows == 6

\* A cell of column I: empty, a text, or the formula preprocess_entry_file
\* writes there.  A formula is kept by its parts: the digit it tests for,
\* the two rows of column L it refers to and its fallback value.
EmptyCell ==
    [kind |-> "empty", first_char |-> "", l_deudora |-> 0, l_acreedora |-> 0,
     default_value |-> ""]

TextCell(t) ==
    [kind |-> "text", first_char |-> "", l_deudora |-> 0, l_acreedora |-> 0,
     default_value |-> t]

\* One row of the entry worksheet: column A (code), column B (name) and its
\* indent, column G (debit), column H (credit), column I and column L.
WsRow(code, text, indent, debe, haber) ==
    [code |-> code, text |-> text, indent |-> indent, debe |-> debe,
     haber |-> haber, tipo |-> EmptyCell, L |-> ""]

BlankRow == WsRow(<<>>, <<>>, 0, 0, 0)

\* Lines 335-346: the letters of referencia_data, written to L4..L13.
referencia_data == <<"A", "B", "C", "D", "E", "F", "G", "H", "K", "L">>

\* Lines 358-391: the formula written to column I of one data row.
NatureFormula(row) ==
    LET codigo == row.code
        nombre == row.text
        first_char ==
            IF nombre # <<>> /\ IsDigit(nombre[1]) THEN nombre[1]
            ELSE IF codigo # <<>> /\ IsDigit(codigo[1]) THEN codigo[1]
            ELSE ""
        digit == DigitValue(first_char)
    IN  IF first_char \in {"1", "2", "3", "4", "5", "6", "7", "8", "9"}
        THEN [kind |-> "ifs", first_char |-> first_char,
              l_deudora |-> 4 + 2 * (digit - 1),
              l_acreedora |-> 5 + 2 * (digit - 1),
              default_value |-> IF digit = 1 THEN "A"
                                ELSE IF digit = 2 THEN "D"
                                ELSE IF digit = 3 THEN "F" ELSE "A"]
        ELSE [kind |-> "const", first_char |-> "", l_deudora |-> 0,
              l_acreedora |-> 0, default_value |-> "A"]

PadRows(ws, n) ==
    [r \in 1..(IF Len(ws) > n THEN Len(ws) ELSE n) |->
        IF r <= Len(ws) THEN ws[r] ELSE BlankRow]

\* Lines 313-394.  The result is the worksheet as saved and whether the
\* too-few-rows warning was printed instead.
preprocess_entry_file(ws) ==
    IF Len(ws) < 5 THEN [ws |-> ws, warned |-> TRUE]
    ELSE LET trimmed == SubSeq(ws, 3, Len(ws) - 3)
             headed == PadRows(trimmed, 1)
             tabled == PadRows(headed, 3 + Len(referencia_data))
             max_row == Len(tabled)
         IN  [ws |-> [r \in 1..max_row |->
                        [tabled[r] EXCEPT
                           !.tipo = IF r = 1 THEN TextCell("Tipo")
                                    ELSE NatureFormula(tabled[r]),
                           !.L = IF r \in 4..(3 + Len(referencia_data))
                                 THEN referencia_data[r - 3] ELSE @]],
              warned |-> FALSE]

\* What the workbook shows in column I of row r once a spreadsheet program
\* has evaluated the formula of line 384: IFNA(IF(MID(B,1,1)=d, IFS(G>H, Lx,
\* H>G, Ly), IF(MID(A,1,1)=d, IFS(G>H, Lx, H>G, Ly))), default).  IFS with no
\* true condition is #N/A; a reference to an empty cell evaluates to 0.
CellL(ws, k) == IF k \in 1..Len(ws) /\ ws[k].L # "" THEN ws[k].L ELSE "0"

NatureLetter(ws, r) ==
    LET f == ws[r].tipo
        ifs == IF ws[r].debe > ws[r].haber THEN CellL(ws, f.l_deudora)
               ELSE IF ws[r].haber > ws[r].debe THEN CellL(ws, f.l_acreedora)
               ELSE "#N/A"
        mid_b == IF ws[r].text = <<>> THEN "" ELSE ws[r].text[1]
        mid_a == IF ws[r].code = <<>> THEN "" ELSE ws[r].code[1]
        value == IF mid_b = f.first_char THEN ifs
                 ELSE IF mid_a = f.first_char THEN ifs ELSE "FALSE"
    IN  CASE f.kind = "const" -> f.default_value
          [] f.kind = "ifs" -> IF value = "#N/A" THEN f.default_value ELSE value
          [] OTHER -> ""

\* Lines 73 and 156-172: the data rows build_catalog_rows reads from the
\* workbook.  The first row is taken as the header; column I holds no cached
\* value for a formula, so the type cell reads as empty.
EntryDataRows(ws) ==
    [i \in 1..(Len(ws) - 1) |->
        SheetRow(ws[i + 1].code, ws[i + 1].text, <<>>, ws[i + 1].indent)]

SavedFile(file_rows) == [exists |-> TRUE, rows |-> file_rows]

\* Lines 397-403: main, one called function per step.
HeaderWsRow == WsRow(<<"C","o","d","i","g","o">>, <<"N","o","m","b","r","e">>, 0, 0, 0)

TitleWsRow == WsRow(<<>>, <<"B","a","l","a","n","z","a"," ","d","e"," ","c","o","m","p","r","o","b","a","c","i","o","n">>, 0, 0, 0)

TotalWsRow == WsRow(<<>>, <<"T","o","t","a","l">>, 0, 0, 0)

SectionDigits == {"0", "1", "2", "3", "4", "5", "6", "7", "8", "9"}

\* Rows that carry their section digit in the name, in the code, or nowhere.
NatureRowPool ==
    { WsRow(<<>>, <<d>> \o <<" ","C","u","e","n","t","a">>, 0, g, h) :
        d \in SectionDigits, g \in 0..MaxMagnitude, h \in 0..MaxMagnitude }
    \cup
    { WsRow(<<d, ".", "1">>, <<"C","u","e","n","t","a">>, 1, g, h) :
        d \in SectionDigits, g \in 0..MaxMagnitude, h \in 0..MaxMagnitude }
    \cup
    { WsRow(<<>>, <<"C","u","e","n","t","a">>, 0, g, h) :
        g \in 0..MaxMagnitude, h \in 0..MaxMagnitude }

ShortFileRowPool ==
    { WsRow(<<"1">>, <<"A","c","t","i","v","o">>, 0, 1, 0),
      WsRow(<<>>, <<"1",".","1"," ","C","a","j","a">>, 1, 0, 1),
      TotalWsRow }

InitMain ==
    /\ prog = "main"
    /\ pc = "preprocess"
    /\ NormIdle
    /\ RolesIdle
    /\ MergeIdle
    /\ AppIdle
    /\ polizas_parsed = <<>> /\ folio = 0
    /\ sat_file = SatFile(TRUE, SatSheet)
    /\ sat_lookup = <<>>
    /\ df = <<>>
    /\ rows = <<>>
    /\ parent_code_by_indent = <<>>
    /\ parent_name_by_indent = <<>>
    /\ warnings = <<>>
    /\ output_path = NoFile
    /\ \/ \E data \in NatureRowPool :
             entry_file = <<TitleWsRow, TitleWsRow, HeaderWsRow, data,
                            TotalWsRow, TotalWsRow, TotalWsRow>>
       \/ \E n \in 0..(MaxFileRows - 1) :
             \E data \in [1..n -> ShortFileRowPool] :
                entry_file = <<HeaderWsRow>> \o data

PreprocessEntryFile ==
    /\ prog = "main" /\ pc = "preprocess"
    /\ \E done \in {preprocess_entry_file(entry_file)} :
          /\ entry_file' = done.ws
          /\ warnings' = IF done.warned
                         THEN Append(warnings, "muy pocas filas")
                         ELSE warnings
    /\ pc' = "build"
    /\ UNCHANGED <<prog, normVars, roleVars, jrnVars, catVars, mergeVars,
                   output_path, appVars>>

BuildCatalogRows ==
    /\ prog = "main" /\ pc = "build"
    /\ \E built \in {CatalogLoop(<<>>, <<>>, <<>>, load_sat_lookup(sat_file),
                                 EntryDataRows(entry_file))} :
          /\ df' = EntryDataRows(entry_file)
          /\ sat_lookup' = load_sat_lookup(sat_file)
          /\ rows' = built.rows
          /\ parent_code_by_indent' = built.codes
          /\ parent_name_by_indent' = built.names
    /\ pc' = "append"
    /\ UNCHANGED <<prog, normVars, roleVars, polizas_parsed, folio, sat_file,
                   mergeVars, mainVars, appVars>>

AppendRowsToTemplate ==
    /\ prog = "main" /\ pc = "append"
    /\ output_path' = SavedFile(append_rows_to_template(rows))
    /\ pc' = "done"
    /\ UNCHANGED <<prog, normVars, roleVars, jrnVars, catVars, mergeVars,
                   entry_file, warnings, appVars>>

NextMain == PreprocessEntryFile \/ BuildCatalogRows \/ AppendRowsToTemplate

SpecMain == InitMain /\ [][NextMain]_vars

Preprocessed == prog = "main" /\ pc # "preprocess" /\ warnings = <<>>

RECURSIVE FirstDigitIn(_)
FirstDigitIn(s) ==
    IF s = <<>> THEN ""
    ELSE IF IsDigit(Head(s)) THEN Head(s) ELSE FirstDigitIn(Tail(s))

\* The section digit of a worksheet row: the first digit of the name, or
\* else the first digit of the code.
SectionDigit(r) ==
    IF FirstDigitIn(entry_file[r].text) # ""
    THEN FirstDigitIn(entry_file[r].text)
    ELSE FirstDigitIn(entry_file[r].code)

DebitHeavy(r) == entry_file[r].debe > entry_file[r].haber

CreditHeavy(r) == entry_file[r].haber > entry_file[r].debe

DataRowNumbers == 2..Len(entry_file)

\* C24: section digits 5, 6 and 7 give the letters of section 4, G on the
\* debit side and H on the credit side, and section digit 8 gives the
\* order pair, K on the debit side and L on the credit side.
C24_SectionsShareLetters ==
    Preprocessed =>
        \A r \in DataRowNumbers :
            /\ SectionDigit(r) \in {"4", "5", "6", "7"} /\ DebitHeavy(r)
                  => NatureLetter(entry_file, r) = "G"
            /\ SectionDigit(r) \in {"4", "5", "6", "7"} /\ CreditHeavy(r)
                  => NatureLetter(entry_file, r) = "H"
            /\ SectionDigit(r) = "8" /\ DebitHeavy(r)
                  => NatureLetter(entry_file, r) = "K"
            /\ SectionDigit(r) = "8" /\ CreditHeavy(r)
                  => NatureLetter(entry_file, r) = "L"

SectionLetters(d) ==
    CASE d = "1" -> [debit |-> "A", credit |-> "B", default |-> "A"]
      [] d = "2" -> [debit |-> "C", credit |-> "D", default |-> "D"]
      [] d = "3" -> [debit |-> "E", credit |-> "F", default |-> "F"]
      [] d \in {"4", "5", "6", "7"} ->
            [debit |-> "G", credit |-> "H", default |-> "A"]
      [] d = "8" -> [debit |-> "K", credit |-> "L", default |-> "A"]
      [] OTHER -> [debit |-> "A", credit |-> "A", default |-> "A"]

\* C25: with a section digit in 1..8 the nature letter is the section's
\* debit letter when debit > credit, its credit letter when credit > debit
\* and its default letter when the two are equal; with no digit, or a digit
\* outside 1..8, the letter is "A" whatever the two magnitudes are.
C25_LetterByComparison ==
    Preprocessed =>
        \A r \in DataRowNumbers :
            NatureLetter(entry_file, r) =
                IF DebitHeavy(r) THEN SectionLetters(SectionDigit(r)).debit
                ELSE IF CreditHeavy(r) THEN SectionLetters(SectionDigit(r)).credit
                ELSE SectionLetters(SectionDigit(r)).default

\* C26: after the too-few-rows warning nothing is built from the file and
\* no output workbook is saved.
C26_TooShortAborts ==
    prog = "main" /\ warnings # <<>> =>
        /\ rows = <<>>
        /\ output_path = NoFile

-----------------------------------------------------------------------------
(* Hierarchy claims on the catalog rows                                    *)

RootCode == Zeros(TOTAL_DIGITS)

\* C27: the parent-code field of every emitted row is the all-zero root
\* code or the code field of a row emitted earlier in the same output.
C27_ParentIsRootOrEarlierRow ==
    InCatalog =>
        \A k \in 1..Len(rows) :
            \/ rows[k].data[5] = RootCode
            \/ \E j \in 1..(k - 1) : rows[j].data[2] = rows[k].data[5]

\* A third row whose parent is the first row, not the row just before it.
C27_Witness ==
    /\ InCatalog
    /\ Len(rows) = 3
    /\ rows[3].data[5] # RootCode
    /\ rows[3].data[5] = rows[1].data[2]
    /\ rows[3].data[5] # rows[2].data[2]

LastCodeBearing == MostRecent(CodeBearing)

\* C28: a row at level n > 1 with no open ancestor at level n-1, because the
\* level was skipped or its entry was discarded by a shallower row, is
\* emitted with the root code as parent; after every row that yields a code
\* the code stack and the name stack hold the same levels, none of them
\* deeper than that row's level.
C28_NoAncestorMeansRoot ==
    InCatalog =>
        /\ \A i \in CodeBearing :
              (indent_level(df[i]) > 1 /\ OpenAncestors(i) = {}) =>
                  EmittedFor(i).data[5] = RootCode
        /\ DOMAIN parent_code_by_indent = DOMAIN parent_name_by_indent
        /\ CodeBearing # {} =>
              /\ indent_level(df[LastCodeBearing]) \in DOMAIN parent_code_by_indent
              /\ \A k \in DOMAIN parent_code_by_indent :
                    k <= indent_level(df[LastCodeBearing])
        /\ CodeBearing = {} => parent_code_by_indent = <<>>

\* "1.1" at level 2, "1" at level 1, "1.1.1" at level 3: the level-2 entry
\* was discarded by the level-1 row, and level 1 is not the parent level.
C28_Witness ==
    /\ InCatalog
    /\ Len(df) = 3 /\ Len(rows) = 3
    /\ [i \in 1..3 |-> indent_level(df[i])] = <<2, 1, 3>>
    /\ rows[3].data[5] = RootCode
    /\ DOMAIN parent_code_by_indent = {1, 3}

SkippedRowNumbers == (1..Len(df)) \ CodeBearing

\* C29: a row skipped because no code can be recovered leaves the code
\* stack, the name stack and the output as they were, so a deeper row that
\* follows it gets as parent the last code-bearing row still open at its
\* parent level.
C29_SkippedRowLeavesStack ==
    /\ [][(InCatalog /\ pc = "loop" /\ Len(df') = Len(df) + 1
           /\ RecoverCode(df'[Len(df')]).raw_code = <<>>)
          => /\ parent_code_by_indent' = parent_code_by_indent
             /\ parent_name_by_indent' = parent_name_by_indent
             /\ rows' = rows]_vars
    /\ [](InCatalog =>
            \A i \in CodeBearing :
                (i - 1 \in SkippedRowNumbers /\ OpenAncestors(i) # {}) =>
                    EmittedFor(i).data[5] =
                        NormalizedCodeOf(MostRecent(OpenAncestors(i))))

\* "1" at level 1, then "Total" at level 1 skipped, then "1.1" at level 2.
C29_Witness ==
    /\ InCatalog
    /\ Len(df) = 3 /\ Len(rows) = 2
    /\ SkippedRowNumbers = {2}
    /\ [i \in 1..3 |-> indent_level(df[i])] = <<1, 1, 2>>
    /\ rows[2].data[5] = rows[1].data[2]
    /\ rows[2].data[5] # RootCode

-----------------------------------------------------------------------------
(* streamlit_app.py: the connection and the automatic pipeline             *)

MaxPeriods == 2

CompanyIds == {1, 2}

\* Lines 380-400: the key each step stores its output under, in step order.
StepKeys ==
    <<"balanza_original", "xml_original", "grupos_original", "cuentas",
      "polizas">>

\* What a step returns: the export or conversion of one company's period.
\* cuentas is made from the trial balance, polizas from the XML and groups.
StepValue(key, cid, d_from) == [of |-> key, cid |-> cid, d_from |-> d_from]

NoHandler == [cid |-> 0, d_from |-> 0, results |-> <<>>]

\* Lines 251-255: the session state of a new session.
NewSession ==
    [odoo |-> "None", companies |-> "None", company_id |-> 0,
     results |-> <<>>, show_success |-> "None"]

\* Lines 380-410: step k of the handler, which succeeds or raises.  Gives
\* the session state, the handler's locals, the stepper and where the
\* script goes next.
PipelineStep_saves_each_step(k, ok, ss, h) ==
    IF ok
    THEN LET res == Append(h.results,
                           <<StepKeys[k], StepValue(StepKeys[k], h.cid, h.d_from)>>)
         IN  [session_state |-> [ss EXCEPT !.results = res,
                                           !.show_success =
                                               IF k = 5 THEN "False" ELSE @],
              handler |-> IF k = 5 THEN NoHandler ELSE [h EXCEPT !.results = res],
              stepper |-> [current_step |-> k, error |-> FALSE],
              pc |-> IF k = 5 THEN "idle" ELSE "step"]
    ELSE [session_state |-> ss,
          handler |-> NoHandler,
          stepper |-> [current_step |-> 0, error |-> TRUE],
          pc |-> "idle"]

PipelineStep(k, ok, ss, h) ==
    IF ok
    THEN LET res == Append(h.results,
                           <<StepKeys[k], StepValue(StepKeys[k], h.cid, h.d_from)>>)
         IN  IF k = 5
             THEN [session_state |-> [ss EXCEPT !.results = res,
                                                !.show_success = "False"],
                   handler |-> NoHandler,
                   stepper |-> [current_step |-> 5, error |-> FALSE],
                   pc |-> "idle"]
             ELSE [session_state |-> ss,
                   handler |-> [h EXCEPT !.results = res],
                   stepper |-> [current_step |-> k, error |-> FALSE],
                   pc |-> "step"]
    ELSE [session_state |-> ss,
          handler |-> NoHandler,
          stepper |-> [current_step |-> 0, error |-> TRUE],
          pc |-> "idle"]

InitApp ==
    /\ prog = "app"
    /\ pc = "idle"
    /\ NormIdle
    /\ RolesIdle
    /\ JournalIdle
    /\ CatalogIdle
    /\ MergeIdle
    /\ MainIdle
    /\ session_state = NewSession
    /\ handler = NoHandler
    /\ stepper = [current_step |-> 0, error |-> FALSE]

AppUnchanged ==
    UNCHANGED <<prog, normVars, roleVars, jrnVars, catVars, mergeVars,
                mainVars>>

\* Lines 268-278: the "Conectar" button.  Either call may raise; the error
\* is shown and what was assigned before it stays assigned.
Connect ==
    /\ prog = "app" /\ pc = "idle"
    /\ session_state.odoo = "None"
    /\ \E connected \in BOOLEAN, listed \in BOOLEAN :
          session_state' =
              IF ~connected THEN session_state
              ELSE IF ~listed THEN [session_state EXCEPT !.odoo = "connected"]
              ELSE [session_state EXCEPT !.odoo = "connected",
                                         !.companies = "listed"]
    /\ UNCHANGED <<pc, handler, stepper>>
    /\ AppUnchanged

\* Lines 282-286: the "Desconectar" button.
Disconnect ==
    /\ prog = "app" /\ pc = "idle"
    /\ session_state.odoo # "None"
    /\ session_state' = [session_state EXCEPT !.odoo = "None",
                                              !.companies = "None",
                                              !.results = <<>>]
    /\ UNCHANGED <<pc, handler, stepper>>
    /\ AppUnchanged

\* Lines 293-297 and 338-343: the company selected in the rendered page,
\* then the "PROCESAR TODO" button with the selected month.
ProcessAll ==
    /\ prog = "app" /\ pc = "idle"
    /\ session_state.odoo # "None" /\ session_state.companies # "None"
    /\ \E cid \in CompanyIds, d_from \in 1..MaxPeriods :
          /\ session_state' = [session_state EXCEPT !.company_id = cid]
          /\ handler' = [cid |-> cid, d_from |-> d_from, results |-> <<>>]
    /\ stepper' = [current_step |-> 0, error |-> FALSE]
    /\ pc' = "step"
    /\ AppUnchanged

\* Lines 375-410: the next step of the running handler.
RunStep ==
    /\ prog = "app" /\ pc = "step"
    /\ \E ok \in BOOLEAN :
          \E after \in {PipelineStep(Len(handler.results) + 1, ok,
                                     session_state, handler)} :
              /\ session_state' = after.session_state
              /\ handler' = after.handler
              /\ stepper' = after.stepper
              /\ pc' = after.pc
    /\ AppUnchanged

NextApp == Connect \/ Disconnect \/ ProcessAll \/ RunStep

SpecApp == InitApp /\ [][NextApp]_vars

InApp == prog = "app"

KeysOf(res) == [i \in 1..Len(res) |-> res[i][1]]

\* The outputs of one complete run for company cid and month d_from.
CompleteResults(cid, d_from) ==
    [i \in 1..5 |-> <<StepKeys[i], StepValue(StepKeys[i], cid, d_from)>>]

StepRaised == pc = "step" /\ pc' = "idle" /\ stepper'.error

RunCompleted == pc = "step" /\ pc' = "idle" /\ ~stepper'.error

\* C30: the steps of the automatic pipeline run in the fixed order trial
\* balance, XML, account groups, accounts, policies; the session's results
\* are replaced only when the fifth has succeeded, by that run's five
\* outputs; when a step raises no later step runs and the session's results
\* stay as they were; disconnecting clears the connection, the company
\* list and the results.
C30_ResultsReplacedOnlyOnSuccess ==
    /\ [](InApp =>
            /\ KeysOf(handler.results) = SubSeq(StepKeys, 1, Len(handler.results))
            /\ Len(handler.results) < 5
            /\ pc = "idle" => handler.results = <<>>)
    /\ [][InApp =>
            /\ StepRaised =>
                  /\ session_state' = session_state
                  /\ handler'.results = <<>>
            /\ RunCompleted =>
                  /\ Len(handler.results) = 4
                  /\ session_state'.results =
                        CompleteResults(handler.cid, handler.d_from)
            /\ session_state'.results # session_state.results =>
                  \/ RunCompleted
                  \/ pc = "idle" /\ session_state'.odoo = "None"
            /\ (session_state.odoo # "None" /\ session_state'.odoo = "None") =>
                  /\ session_state'.companies = "None"
                  /\ session_state'.results = <<>>]_vars

\* A later run, for company 2, has raised while the session still offers
\* the complete results of the run for company 1.
C30_Witness ==
    /\ InApp
    /\ pc = "idle"
    /\ stepper.error
    /\ session_state.results = CompleteResults(1, 1)
    /\ session_state.company_id = 2

=============================================================================
